---- MODULE Spec2Model ----
(***************************************************************************)
(* Streaming JSON parser / formatter (src/json.cpp, the C++23 program, and *)
(* src/json_17.cpp, the C++17 program).                                    *)
(*                                                                         *)
(* A run of the program is modelled character by character: the input is   *)
(* a sequence of one-character strings read through one forward cursor,    *)
(* the standard output is the sequence of characters written so far.  The  *)
(* recursion of serialize (a chain of generators in json.cpp) is the       *)
(* explicit stack of open streams.                                         *)
(***************************************************************************)
EXTENDS Integers, Sequences, FiniteSets, TLC

(***************************************************************************)
(* Characters                                                              *)
(***************************************************************************)
DigitChars == <<"0", "1", "2", "3", "4", "5", "6", "7", "8", "9">>

\* std::isspace in the "C" locale
IsSpace(c) == c \in {" ", "\t", "\n", "\r", "\f"}

\* std::isdigit
IsDigit(c) == \E i \in 1..10 : DigitChars[i] = c

DigitVal(c) == (CHOOSE i \in 1..10 : DigitChars[i] = c) - 1

Max(a, b) == IF a >= b THEN a ELSE b

Zeros(n) == [i \in 1..n |-> "0"]

RECURSIVE LeadingZeros(_)
LeadingZeros(ds) ==
    IF ds # <<>> /\ Head(ds) = "0" THEN 1 + LeadingZeros(Tail(ds)) ELSE 0

RECURSIVE StripTrailingZeros(_)
StripTrailingZeros(ds) ==
    IF ds # <<>> /\ ds[Len(ds)] = "0"
    THEN StripTrailingZeros(SubSeq(ds, 1, Len(ds) - 1))
    ELSE ds

\* a <= b for two digit sequences of the same length
RECURSIVE DigitsLeq(_, _)
DigitsLeq(a, b) ==
    IF a = <<>> THEN TRUE
    ELSE IF DigitVal(Head(a)) < DigitVal(Head(b)) THEN TRUE
    ELSE IF DigitVal(Head(a)) > DigitVal(Head(b)) THEN FALSE
    ELSE DigitsLeq(Tail(a), Tail(b))

\* decimal digits of a natural number
RECURSIVE NatDigits(_)
NatDigits(n) ==
    IF n < 10 THEN <<DigitChars[n + 1]>>
    ELSE NatDigits(n \div 10) \o <<DigitChars[(n % 10) + 1]>>

(***************************************************************************)
(* Numeric conversions of the standard library, on digit sequences: an     *)
(* int64_t is its sign and its decimal magnitude, a double the sign, the   *)
(* significant digits d1 d2 ... dn and the exponent X of d1.d2...dn * 10^X *)
(* (exact for literals of at most DBL_DIG digits, which Feed guarantees).  *)
(***************************************************************************)
DBL_DIG == 15

\* magnitude of INT64_MAX = 9223372036854775807
Int64MaxDigits ==
    <<"9", "2", "2", "3", "3", "7", "2", "0", "3", "6", "8", "5", "4", "7", "7",
      "5", "8", "0", "7">>

\* magnitude of INT64_MIN = -9223372036854775808
Int64MinDigits ==
    <<"9", "2", "2", "3", "3", "7", "2", "0", "3", "6", "8", "5", "4", "7", "7",
      "5", "8", "0", "8">>

\* std::stoll(number_str): number_str is an optional '-' and digits
stoll(str) ==
    LET neg == str # <<>> /\ str[1] = "-"
        ds  == IF neg THEN Tail(str) ELSE str
        lz  == LeadingZeros(ds)
        mag == IF lz = Len(ds) THEN <<"0">> ELSE SubSeq(ds, lz + 1, Len(ds))
        lim == IF neg THEN Int64MinDigits ELSE Int64MaxDigits
    IN  IF ds = <<>>
        THEN [exc |-> "std::invalid_argument", msg |-> "stoll"]
        ELSE IF Len(mag) > Len(lim) \/ (Len(mag) = Len(lim) /\ ~DigitsLeq(mag, lim))
        THEN [exc |-> "std::out_of_range", msg |-> "stoll"]
        ELSE [exc |-> "", msg |-> "",
              value |-> [type |-> "int64_t",
                         neg |-> neg /\ mag # <<"0">>,
                         mag |-> mag]]

\* std::stod(number_str): number_str is an optional '-', digits and one '.'
stod(str) ==
    LET neg  == str # <<>> /\ str[1] = "-"
        rest == IF neg THEN Tail(str) ELSE str
        dot  == CHOOSE i \in 1..Len(rest) : rest[i] = "."
        intp == SubSeq(rest, 1, dot - 1)
        all  == intp \o SubSeq(rest, dot + 1, Len(rest))
        lz   == LeadingZeros(all)
    IN  IF all = <<>>
        THEN [exc |-> "std::invalid_argument", msg |-> "stod"]
        ELSE [exc |-> "", msg |-> "",
              value |-> IF lz = Len(all)
                        THEN [type |-> "double", neg |-> neg, sig |-> <<>>, exp |-> 0]
                        ELSE [type |-> "double", neg |-> neg,
                              sig |-> StripTrailingZeros(SubSeq(all, lz + 1, Len(all))),
                              exp |-> Len(intp) - 1 - lz]]

\* faulty variant: the sign is not printed
FormatInt_Unsigned(v) == v.mag

\* the text of an int64_t (std::format("{}", v) and out << v agree)
FormatInt(v) == (IF v.neg THEN <<"-">> ELSE <<>>) \o v.mag

\* printf's %f shape of d1.d2...dn * 10^X with no trailing zeros
FixedText(sig, X) ==
    LET n == Len(sig)
    IN  IF X >= n - 1 THEN sig \o Zeros(X - (n - 1))
        ELSE IF X >= 0 THEN SubSeq(sig, 1, X + 1) \o <<".">> \o SubSeq(sig, X + 2, n)
        ELSE <<"0", ".">> \o Zeros(-X - 1) \o sig

\* printf's %e shape: d1[.d2...dn]e+XX, the exponent of at least two digits
SciText(sig, X) ==
    LET n  == Len(sig)
        ax == IF X < 0 THEN -X ELSE X
    IN  <<sig[1]>> \o (IF n > 1 THEN <<".">> \o Tail(sig) ELSE <<>>)
        \o <<"e", IF X < 0 THEN "-" ELSE "+">>
        \o (IF ax < 10 THEN <<"0">> ELSE <<>>) \o NatDigits(ax)

\* std::format("{}", double): the shortest round-trip digits, in the shorter
\* of the fixed and the scientific notation (fixed on a tie)
FormatDoubleShortest(v) ==
    LET f == FixedText(v.sig, v.exp)
        e == SciText(v.sig, v.exp)
    IN  (IF v.neg THEN <<"-">> ELSE <<>>)
        \o (IF v.sig = <<>> THEN <<"0">>
            ELSE IF Len(f) <= Len(e) THEN f ELSE e)

\* ds + 1 on a digit sequence; a carry out of the first digit prepends "1"
RECURSIVE Increment(_)
Increment(ds) ==
    IF ds = <<>> THEN <<"1">>
    ELSE IF ds[Len(ds)] = "9"
    THEN Increment(SubSeq(ds, 1, Len(ds) - 1)) \o <<"0">>
    ELSE SubSeq(ds, 1, Len(ds) - 1) \o <<DigitChars[DigitVal(ds[Len(ds)]) + 2]>>

\* ostream's precision
StreamPrecision == 6

\* out << double: printf's %g with the stream's default precision of 6
FormatDoubleStream(v) ==
    LET P    == StreamPrecision
        long == Len(v.sig) > P
        head == IF long THEN SubSeq(v.sig, 1, P) ELSE v.sig
        up   == long /\ DigitVal(v.sig[P + 1]) >= 5
        inc  == IF up THEN Increment(head) ELSE head
        X    == IF Len(inc) > Len(head) THEN v.exp + 1 ELSE v.exp
        sig  == StripTrailingZeros(inc)
    IN  (IF v.neg THEN <<"-">> ELSE <<>>)
        \o (IF v.sig = <<>> THEN <<"0">>
            ELSE IF X < -4 \/ X >= P THEN SciText(sig, X)
            ELSE FixedText(sig, X))

(***************************************************************************)
(* lexer: every operation takes the characters read so far (in) and the    *)
(* number of characters consumed (p) and returns the new position pos, the *)
(* highest index ex it looked at (Len(in) + 1 when it tested for the end   *)
(* of the stream) and the exception it threw, if any.                      *)
(***************************************************************************)
NoExc == ""
ParseError == "json::parse_error"

\* With(e, LAMBDA x : body) is body with x bound to the value of e
With(x, F(_)) == F(x)

\* faulty variant: at most one whitespace character is skipped
SkipSpace_One(in, p) == IF p < Len(in) /\ IsSpace(in[p + 1]) THEN p + 1 ELSE p

RECURSIVE SkipSpace(_, _)
SkipSpace(in, p) ==
    IF p < Len(in) /\ IsSpace(in[p + 1]) THEN SkipSpace(in, p + 1) ELSE p

TokenTypeOf(c) ==
    CASE c = "{" -> "OBJECT_BEGIN"
      [] c = "}" -> "OBJECT_END"
      [] c = "[" -> "ARRAY_BEGIN"
      [] c = "]" -> "ARRAY_END"
      [] c = "," -> "COMMA"
      [] c = ":" -> "COLON"
      [] c = "\"" -> "STRING"
      [] OTHER -> IF IsDigit(c) \/ c = "-" THEN "NUMBER" ELSE "none"

\* faulty variant: a character that starts no token is a token of no type
peek_type_Silent(in, p) ==
    With(SkipSpace(in, p), LAMBDA q :
      IF q = Len(in)
      THEN [pos |-> q, ex |-> q + 1, exc |-> NoExc, msg |-> "", type |-> "END_OF_INPUT"]
      ELSE [pos |-> q, ex |-> q + 1, exc |-> NoExc, msg |-> "",
            type |-> TokenTypeOf(in[q + 1])])

\* faulty variant: a bracket, ',' or ':' is consumed by the look at it
peek_type_Consuming(in, p) ==
    With(SkipSpace(in, p), LAMBDA q :
      IF q >= Len(in)
      THEN [pos |-> q, ex |-> q + 1, exc |-> NoExc, msg |-> "", type |-> "END_OF_INPUT"]
      ELSE With(TokenTypeOf(in[q + 1]), LAMBDA t :
        IF t = "none"
        THEN [pos |-> q, ex |-> q + 1, exc |-> ParseError,
              msg |-> "Unexpected character: " \o in[q + 1], type |-> t]
        ELSE [pos |-> IF t \in {"STRING", "NUMBER"} THEN q ELSE q + 1,
              ex |-> q + 1, exc |-> NoExc, msg |-> "", type |-> t]))

\* lexer::peek_type: skips (and consumes) whitespace, looks at one character
peek_type(in, p) ==
    With(SkipSpace(in, p), LAMBDA q :
      IF q = Len(in)
      THEN [pos |-> q, ex |-> q + 1, exc |-> NoExc, msg |-> "", type |-> "END_OF_INPUT"]
      ELSE With(TokenTypeOf(in[q + 1]), LAMBDA t :
        IF t = "none"
        THEN [pos |-> q, ex |-> q + 1, exc |-> ParseError,
              msg |-> "Unexpected character: " \o in[q + 1], type |-> t]
        ELSE [pos |-> q, ex |-> q + 1, exc |-> NoExc, msg |-> "", type |-> t]))

\* index of the first '"' at or after index i, Len(in) + 1 if there is none
RECURSIVE FindQuote(_, _)
FindQuote(in, i) ==
    IF i <= Len(in) /\ in[i] # "\"" THEN FindQuote(in, i + 1) ELSE i

\* faulty variant: the end of the input closes an open string
parse_string_ToEnd(in, q) ==
    With(FindQuote(in, q + 2), LAMBDA j :
      IF j > Len(in)
      THEN [pos |-> Len(in), ex |-> Len(in) + 1, exc |-> NoExc, msg |-> "",
            type |-> "STRING",
            value |-> [type |-> "string", s |-> SubSeq(in, q + 2, Len(in))]]
      ELSE [pos |-> j, ex |-> j, exc |-> NoExc, msg |-> "", type |-> "STRING",
            value |-> [type |-> "string", s |-> SubSeq(in, q + 2, j - 1)]])

\* lexer::parse_string with the cursor on the opening quote in[q + 1]
parse_string(in, q) ==
    With(FindQuote(in, q + 2), LAMBDA j :
      IF j > Len(in)
      THEN [pos |-> Len(in), ex |-> Len(in) + 1, exc |-> ParseError,
            msg |-> "Unterminated string", type |-> "STRING"]
      ELSE [pos |-> j, ex |-> j, exc |-> NoExc, msg |-> "", type |-> "STRING",
            value |-> [type |-> "string", s |-> SubSeq(in, q + 2, j - 1)]])

\* faulty variant: a second '.' ends the token
RECURSIVE NumberScan_StopAtDot(_, _, _)
NumberScan_StopAtDot(in, i, has_decimal) ==
    IF i < Len(in) /\ (IsDigit(in[i + 1]) \/ in[i + 1] = ".")
    THEN IF in[i + 1] = "." /\ has_decimal
         THEN [pos |-> i, multiple |-> FALSE, has_decimal |-> TRUE]
         ELSE NumberScan_StopAtDot(in, i + 1, has_decimal \/ in[i + 1] = ".")
    ELSE [pos |-> i, multiple |-> FALSE, has_decimal |-> has_decimal]

\* the loop of parse_number from position i: stops before the first character
\* that is no digit and no '.', or on a second '.'
RECURSIVE NumberScan(_, _, _)
NumberScan(in, i, has_decimal) ==
    IF i < Len(in) /\ (IsDigit(in[i + 1]) \/ in[i + 1] = ".")
    THEN IF in[i + 1] = "." /\ has_decimal
         THEN [pos |-> i, multiple |-> TRUE, has_decimal |-> TRUE]
         ELSE NumberScan(in, i + 1, has_decimal \/ in[i + 1] = ".")
    ELSE [pos |-> i, multiple |-> FALSE, has_decimal |-> has_decimal]

\* faulty variant: a number that ends with its '.' is rejected
ConvertNumber_Strict(str, has_decimal) ==
    IF has_decimal /\ str[Len(str)] = "."
    THEN [exc |-> ParseError, msg |-> "Invalid number"]
    ELSE IF has_decimal THEN stod(str) ELSE stoll(str)

\* faulty variant: a number with a '.' whose value is zero becomes the
\* Integer 0
ConvertNumber_ZeroInteger(str, has_decimal) ==
    IF has_decimal
    THEN With(stod(str), LAMBDA d :
           IF d.exc = NoExc /\ d.value.sig = <<>> THEN stoll(<<"0">>) ELSE d)
    ELSE stoll(str)

\* the end of parse_number: std::stod or std::stoll of number_str
ConvertNumber(str, has_decimal) == IF has_decimal THEN stod(str) ELSE stoll(str)

\* faulty variant: the number ends with the characters the stream holds so
\* far; the character behind it is not waited for
parse_number_Available(in, q) ==
    With(NumberScan(in, IF in[q + 1] = "-" THEN q + 1 ELSE q, FALSE), LAMBDA sc :
      IF sc.multiple
      THEN [pos |-> sc.pos, ex |-> sc.pos + 1, exc |-> ParseError,
            msg |-> "Multiple decimal points in number", type |-> "NUMBER"]
      ELSE With(ConvertNumber(SubSeq(in, q + 1, sc.pos), sc.has_decimal), LAMBDA conv :
        IF conv.exc # NoExc
        THEN [pos |-> sc.pos, ex |-> sc.pos, exc |-> conv.exc,
              msg |-> conv.msg, type |-> "NUMBER"]
        ELSE [pos |-> sc.pos, ex |-> sc.pos, exc |-> NoExc, msg |-> "",
              type |-> "NUMBER", value |-> conv.value]))

\* lexer::parse_number with the cursor on in[q + 1], a digit or '-'
parse_number(in, q) ==
    With(NumberScan(in, IF in[q + 1] = "-" THEN q + 1 ELSE q, FALSE), LAMBDA sc :
      IF sc.multiple
      THEN [pos |-> sc.pos, ex |-> sc.pos + 1, exc |-> ParseError,
            msg |-> "Multiple decimal points in number", type |-> "NUMBER"]
      ELSE With(ConvertNumber(SubSeq(in, q + 1, sc.pos), sc.has_decimal), LAMBDA conv :
        IF conv.exc # NoExc
        THEN [pos |-> sc.pos, ex |-> sc.pos + 1, exc |-> conv.exc,
              msg |-> conv.msg, type |-> "NUMBER"]
        ELSE [pos |-> sc.pos, ex |-> sc.pos + 1, exc |-> NoExc, msg |-> "",
              type |-> "NUMBER", value |-> conv.value]))

\* the token types of one character that next_token consumes
StructuralTypes ==
    {"OBJECT_BEGIN", "OBJECT_END", "ARRAY_BEGIN", "ARRAY_END", "COMMA", "COLON", "NOOP"}

\* lexer::next_token; behind its switch stands the throw for a type that is
\* none of token_type
next_token(in, p) ==
    With(peek_type(in, p), LAMBDA pk :
      IF pk.exc # NoExc THEN pk
      ELSE IF pk.type = "END_OF_INPUT" THEN pk
      ELSE IF pk.type = "STRING" THEN parse_string(in, pk.pos)
      ELSE IF pk.type = "NUMBER" THEN parse_number(in, pk.pos)
      ELSE IF pk.type \in StructuralTypes THEN [pk EXCEPT !.pos = pk.pos + 1]
      ELSE [pk EXCEPT !.exc = ParseError, !.msg = "Unexpected token type"])

\* faulty variant: the token is consumed first and its type compared afterwards
try_consume_token_Always(in, p, type) ==
    IF type = "NOOP"
    THEN [pos |-> p, ex |-> 0, exc |-> NoExc, msg |-> "", type |-> "NOOP", some |-> TRUE]
    ELSE With(next_token(in, p), LAMBDA nt :
      [some |-> nt.exc = NoExc /\ nt.type = type] @@ nt)

\* lexer::try_consume_token of json.cpp: the result has some = FALSE for
\* std::nullopt; NOOP is answered without touching the stream
try_consume_token(in, p, type) ==
    IF type = "NOOP"
    THEN [pos |-> p, ex |-> 0, exc |-> NoExc, msg |-> "", type |-> "NOOP", some |-> TRUE]
    ELSE With(peek_type(in, p), LAMBDA pk :
      IF pk.exc # NoExc \/ pk.type # type THEN [some |-> FALSE] @@ pk
      ELSE With(next_token(in, p), LAMBDA nt : [some |-> nt.exc = NoExc] @@ nt))

(***************************************************************************)
(* Parser.  A thrown exception is a result with exc # NoExc; ex is the     *)
(* highest index any lexer call of the operation looked at.                *)
(***************************************************************************)
Thrown(r, ex, exc, msg) == [pos |-> r.pos, ex |-> Max(ex, r.ex), exc |-> exc, msg |-> msg]

\* a result with the value v
Value(r, ex, v) ==
    [pos |-> r.pos, ex |-> Max(ex, r.ex), exc |-> NoExc, msg |-> "", value |-> v]

\* faulty variant: the constructor also looks at the character behind the
\* opening bracket
OpenStream_Eager(in, p, ex, type, msg, v) ==
    With(try_consume_token(in, p, type), LAMBDA open :
      IF open.some THEN Value([pos |-> open.pos, ex |-> open.pos + 1], ex, v)
      ELSE Thrown(open, ex, ParseError, msg))

\* the constructor of object_stream / array_stream (json_object / json_array)
\* consumes the opening bracket
OpenStream(in, p, ex, type, msg, v) ==
    With(try_consume_token(in, p, type), LAMBDA open :
      IF open.some THEN Value(open, ex, v) ELSE Thrown(open, ex, ParseError, msg))

\* a string or number token becomes the value it carries; a token without
\* one (token.value is std::nullopt) is an error
ScalarValue(in, p, ex) ==
    With(next_token(in, p), LAMBDA nt :
      IF nt.exc # NoExc THEN Thrown(nt, ex, nt.exc, nt.msg)
      ELSE IF "value" \notin DOMAIN nt
      THEN Thrown(nt, ex, ParseError, "Expected value token to have a value")
      ELSE Value(nt, ex, nt.value))

\* faulty variant: a ',' where a value is expected is reported as a character
\* that starts no token
parse_value_CommaUnexpected(in, p) ==
    With(peek_type(in, p), LAMBDA pk :
      IF pk.exc # NoExc THEN Thrown(pk, 0, pk.exc, pk.msg)
      ELSE IF pk.type \in {"STRING", "NUMBER"} THEN ScalarValue(in, p, pk.ex)
      ELSE IF pk.type \in {"OBJECT_BEGIN", "ARRAY_BEGIN"}
      THEN OpenStream(in, p, pk.ex, pk.type,
                      IF pk.type = "OBJECT_BEGIN" THEN "Expected '{'" ELSE "Expected '['",
                      [type |-> IF pk.type = "OBJECT_BEGIN" THEN "object_stream"
                                ELSE "array_stream"])
      ELSE IF pk.type = "COMMA" THEN Thrown(pk, 0, ParseError, "Unexpected character: ,")
      ELSE Thrown(pk, 0, ParseError, "Expected value"))

\* faulty variant: the opening bracket is consumed before the stream is
\* constructed
parse_value_BracketConsumed(in, p) ==
    With(peek_type(in, p), LAMBDA pk :
      IF pk.exc # NoExc THEN Thrown(pk, 0, pk.exc, pk.msg)
      ELSE IF pk.type \in {"STRING", "NUMBER"} THEN ScalarValue(in, p, pk.ex)
      ELSE IF pk.type \in {"OBJECT_BEGIN", "ARRAY_BEGIN"}
      THEN OpenStream(in, pk.pos + 1, pk.ex, pk.type,
                      IF pk.type = "OBJECT_BEGIN" THEN "Expected '{'" ELSE "Expected '['",
                      [type |-> IF pk.type = "OBJECT_BEGIN" THEN "object_stream"
                                ELSE "array_stream"])
      ELSE Thrown(pk, 0, ParseError, "Expected value"))

\* parse_value (json.cpp and json_17.cpp)
parse_value(in, p) ==
    With(peek_type(in, p), LAMBDA pk :
      IF pk.exc # NoExc THEN Thrown(pk, 0, pk.exc, pk.msg)
      ELSE IF pk.type \in {"STRING", "NUMBER"} THEN ScalarValue(in, p, pk.ex)
      ELSE IF pk.type \in {"OBJECT_BEGIN", "ARRAY_BEGIN"}
      THEN OpenStream(in, p, pk.ex, pk.type,
                      IF pk.type = "OBJECT_BEGIN" THEN "Expected '{'" ELSE "Expected '['",
                      [type |-> IF pk.type = "OBJECT_BEGIN" THEN "object_stream"
                                ELSE "array_stream"])
      ELSE Thrown(pk, 0, ParseError, "Expected value"))

\* faulty variant: the end of the sequence leaves the closing bracket unread
EndOfSequence_Unconsumed(r, ex) ==
    [pos |-> r.pos - 1, ex |-> Max(ex, r.ex), exc |-> NoExc, msg |-> "", end |-> TRUE]

\* the result of next_value: end of sequence (std::nullopt) or an item
EndOfSequence(r, ex) ==
    [pos |-> r.pos, ex |-> Max(ex, r.ex), exc |-> NoExc, msg |-> "", end |-> TRUE]

Item(v, ex, key) ==
    IF v.exc # NoExc THEN Thrown(v, ex, v.exc, v.msg)
    ELSE [pos |-> v.pos, ex |-> Max(ex, v.ex), exc |-> NoExc, msg |-> "", end |-> FALSE,
          key |-> key, value |-> v.value]

NoKey == <<"<no key>">>

\* the value of a pair or element, decoded at position p
ItemValue(in, p, ex, key) == Item(parse_value(in, p), ex, key)

\* faulty variant: a '}' where a key is expected ends the object
Pair23_TrailingComma(in, p, ex) ==
    With(try_consume_token(in, p, "STRING"), LAMBDA k :
      IF k.exc # NoExc THEN Thrown(k, ex, k.exc, k.msg)
      ELSE IF ~k.some /\ k.type = "OBJECT_END"
      THEN EndOfSequence([pos |-> k.pos + 1, ex |-> k.ex], ex)
      ELSE IF ~k.some THEN Thrown(k, ex, ParseError, "Expected string key")
      ELSE With(try_consume_token(in, k.pos, "COLON"), LAMBDA col :
        IF col.exc # NoExc THEN Thrown(col, Max(ex, k.ex), col.exc, col.msg)
        ELSE IF ~col.some
        THEN Thrown(col, Max(ex, k.ex), ParseError, "Expected ':' after key")
        ELSE ItemValue(in, col.pos, Max(Max(ex, k.ex), col.ex), k.value.s)))

\* json.cpp, object_stream::next_value after the ',': the key, the ':' and
\* the value; each token is peeked and consumed only if its type is expected
Pair23(in, p, ex) ==
    With(try_consume_token(in, p, "STRING"), LAMBDA k :
      IF k.exc # NoExc THEN Thrown(k, ex, k.exc, k.msg)
      ELSE IF ~k.some THEN Thrown(k, ex, ParseError, "Expected string key")
      ELSE With(try_consume_token(in, k.pos, "COLON"), LAMBDA col :
        IF col.exc # NoExc THEN Thrown(col, Max(ex, k.ex), col.exc, col.msg)
        ELSE IF ~col.some
        THEN Thrown(col, Max(ex, k.ex), ParseError, "Expected ':' after key")
        ELSE ItemValue(in, col.pos, Max(Max(ex, k.ex), col.ex), k.value.s)))

\* json.cpp, the head of both next_value: the closing bracket ends the
\* sequence; after the first item a ',' is required (NOOP before it)
Head23(in, p, first, closing, msg, Rest(_, _)) ==
    With(try_consume_token(in, p, closing), LAMBDA e :
      IF e.exc # NoExc THEN Thrown(e, 0, e.exc, e.msg)
      ELSE IF e.some THEN EndOfSequence(e, 0)
      ELSE With(try_consume_token(in, e.pos, IF first THEN "NOOP" ELSE "COMMA"), LAMBDA c :
        IF c.exc # NoExc THEN Thrown(c, e.ex, c.exc, c.msg)
        ELSE IF ~c.some THEN Thrown(c, e.ex, ParseError, msg)
        ELSE Rest(c.pos, Max(e.ex, c.ex))))

\* object_stream::next_value of json.cpp
object_next_value_23(in, p, first_pair) ==
    Head23(in, p, first_pair, "OBJECT_END", "Expected ',' between object pairs",
           LAMBDA q, ex : Pair23(in, q, ex))

\* array_stream::next_value of json.cpp
array_next_value_23(in, p, first_element) ==
    Head23(in, p, first_element, "ARRAY_END", "Expected ',' between array elements",
           LAMBDA q, ex : ItemValue(in, q, ex, NoKey))

\* faulty variant: the ':' may be left out
Pair17_ColonOptional(in, p, ex) ==
    With(next_token(in, p), LAMBDA k :
      IF k.exc # NoExc THEN Thrown(k, ex, k.exc, k.msg)
      ELSE IF k.type # "STRING" THEN Thrown(k, ex, ParseError, "Expected string key")
      ELSE With(next_token(in, k.pos), LAMBDA col :
        IF col.exc # NoExc THEN Thrown(col, Max(ex, k.ex), col.exc, col.msg)
        ELSE IF col.type # "COLON"
        THEN ItemValue(in, k.pos, Max(ex, k.ex), k.value.s)
        ELSE ItemValue(in, col.pos, Max(Max(ex, k.ex), col.ex), k.value.s)))

\* json_17.cpp, json_object::next_value after the ',': next_token() consumes
\* whatever token is there and its type is compared afterwards
Pair17(in, p, ex) ==
    With(next_token(in, p), LAMBDA k :
      IF k.exc # NoExc THEN Thrown(k, ex, k.exc, k.msg)
      ELSE IF k.type # "STRING" THEN Thrown(k, ex, ParseError, "Expected string key")
      ELSE With(next_token(in, k.pos), LAMBDA col :
        IF col.exc # NoExc THEN Thrown(col, Max(ex, k.ex), col.exc, col.msg)
        ELSE IF col.type # "COLON"
        THEN Thrown(col, Max(ex, k.ex), ParseError, "Expected ':' after key")
        ELSE ItemValue(in, col.pos, Max(Max(ex, k.ex), col.ex), k.value.s)))

\* json_17.cpp: the token that stands where a ',' is required; none is
\* required before the first item
Separator17(in, p, first) ==
    IF first
    THEN [pos |-> p, ex |-> 0, exc |-> NoExc, msg |-> "", type |-> "COMMA"]
    ELSE next_token(in, p)

\* json_17.cpp, the head of both next_value
Head17(in, p, first, closing, msg, Rest(_, _)) ==
    With(try_consume_token(in, p, closing), LAMBDA e :
      IF e.exc # NoExc THEN Thrown(e, 0, e.exc, e.msg)
      ELSE IF e.some THEN EndOfSequence(e, 0)
      ELSE With(Separator17(in, e.pos, first), LAMBDA c :
        IF c.exc # NoExc THEN Thrown(c, e.ex, c.exc, c.msg)
        ELSE IF c.type # "COMMA" THEN Thrown(c, e.ex, ParseError, msg)
        ELSE Rest(c.pos, Max(e.ex, c.ex))))

\* json_object::next_value of json_17.cpp
object_next_value_17(in, p, first_pair) ==
    Head17(in, p, first_pair, "OBJECT_END", "Expected ',' between object pairs",
           LAMBDA q, ex : Pair17(in, q, ex))

\* json_array::next_value of json_17.cpp
array_next_value_17(in, p, first_element) ==
    Head17(in, p, first_element, "ARRAY_END", "Expected ',' between array elements",
           LAMBDA q, ex : ItemValue(in, q, ex, NoKey))

\* index of the first '}' or ']' at or after index i, Len(in) + 1 if none
RECURSIVE FindClose(_, _)
FindClose(in, i) ==
    IF i <= Len(in) /\ in[i] \notin {"}", "]"} THEN FindClose(in, i + 1) ELSE i

\* faulty variant: a stream that has yielded an item and finds neither ','
\* nor its closing bracket skips to behind the next closing bracket first
next_value_SkipChild(im, kind, in, p, first) ==
    With(IF /\ ~first
            /\ SkipSpace(in, p) < Len(in)
            /\ in[SkipSpace(in, p) + 1] \notin {",", IF kind = "object" THEN "}" ELSE "]"}
            /\ FindClose(in, p + 1) <= Len(in)
         THEN FindClose(in, p + 1) ELSE p, LAMBDA q :
      CASE im = "cpp23" /\ kind = "object" -> object_next_value_23(in, q, first)
        [] im = "cpp23" /\ kind = "array"  -> array_next_value_23(in, q, first)
        [] im = "cpp17" /\ kind = "object" -> object_next_value_17(in, q, first)
        [] im = "cpp17" /\ kind = "array"  -> array_next_value_17(in, q, first))

\* the next-item step of a stream of the given kind in the given program
next_value(im, kind, in, p, first) ==
    CASE im = "cpp23" /\ kind = "object" -> object_next_value_23(in, p, first)
      [] im = "cpp23" /\ kind = "array"  -> array_next_value_23(in, p, first)
      [] im = "cpp17" /\ kind = "object" -> object_next_value_17(in, p, first)
      [] im = "cpp17" /\ kind = "array"  -> array_next_value_17(in, p, first)

(***************************************************************************)
(* Serializer texts                                                        *)
(***************************************************************************)
Spaces(n) == [i \in 1..n |-> " "]

\* faulty variant: the indentation does not grow with the level
indent_Flat(base, level) == IF base # 0 THEN <<"\n">> \o Spaces(base) ELSE <<>>

\* faulty variant: the newline is written at indent width 0 too
indent_Always(base, level) == <<"\n">> \o Spaces(base * level)

\* indent(base, level)
indent(base, level) == IF base # 0 THEN <<"\n">> \o Spaces(base * level) ELSE <<>>

\* std::quoted(v) of json_17.cpp: a backslash before every '"' and '\'
RECURSIVE Escape(_)
Escape(str) ==
    IF str = <<>> THEN <<>>
    ELSE (IF Head(str) \in {"\"", "\\"} THEN <<"\\", Head(str)>> ELSE <<Head(str)>>)
         \o Escape(Tail(str))

\* a string value: std::format("\"{}\"", value) in json.cpp, std::quoted in
\* json_17.cpp
SerializeString(im, str) ==
    IF im = "cpp23" THEN <<"\"">> \o str \o <<"\"">>
    ELSE <<"\"">> \o Escape(str) \o <<"\"">>

\* the key of a pair: "key": with a space in json.cpp, "key": without one in
\* json_17.cpp
SerializeKey(im, key) ==
    IF im = "cpp23" THEN <<"\"">> \o key \o <<"\"", ":", " ">>
    ELSE <<"\"">> \o Escape(key) \o <<"\"", ":">>

\* an int64_t or double value
SerializeNumber(im, v) ==
    IF v.type = "int64_t" THEN FormatInt(v)
    ELSE IF im = "cpp23" THEN FormatDoubleShortest(v)
    ELSE FormatDoubleStream(v)

\* the brackets of a composite: std::make_pair("{", "}") or ("[", "]")
OpenBracket(kind) == IF kind = "object" THEN "{" ELSE "["

\* faulty variant: every composite is closed with '}'
CloseBracket_Brace(kind) == "}"

CloseBracket(kind) == IF kind = "object" THEN "}" ELSE "]"

\* faulty variant: a line break after the ","
ItemSeparator_Line(count) == IF count > 1 THEN <<",", "\n">> ELSE <<>>

\* the "," between two items of a composite
ItemSeparator(count) == IF count > 1 THEN <<",">> ELSE <<>>

(***************************************************************************)
(* One run of main as a state record s:                                    *)
(*   pos       characters consumed from the input (the shared cursor)      *)
(*   examined  highest input index looked at so far                        *)
(*   pc        what main / serialize does next                             *)
(*   cur       the item just decoded and not yet serialized                *)
(*   streams   every object_stream / array_stream constructed so far, with  *)
(*             the lexer its lexer_ points to                              *)
(*   stack     the streams whose serialize loop is running, outermost first*)
(*   out, err  standard output (characters), standard error (lines)       *)
(*   status    exit status, -1 while running                               *)
(*   exc       the exception in flight                                     *)
(*   events    history: one record per step                                *)
(***************************************************************************)
NoItem == [key |-> NoKey, value |-> [type |-> "none"]]

InitState ==
    [pos |-> 0, examined |-> 0, pc |-> "parse", cur |-> NoItem, streams |-> <<>>,
     stack |-> <<>>, out |-> <<>>, err |-> <<>>, status |-> -1,
     exc |-> [exc |-> NoExc, msg |-> ""], events |-> <<>>]

IsStream(v) == v.type \in {"object_stream", "array_stream"}

Top(stack) == IF stack = <<>> THEN 0 ELSE stack[Len(stack)]

\* op: "parse", "next" (an item was decoded), "end" (end of sequence),
\* "throw", "item" (key written), "scalar", "open", "close" (value written);
\* stream: the stream whose loop is running (0 at top level); from, to: the
\* cursor before and after; the step wrote out[at + 1 .. len], after layout
Event(op, stream, s, to, at, len, item) ==
    [op |-> op, stream |-> stream, from |-> s.pos, to |-> to, at |-> at, len |-> len,
     key |-> item.key, value |-> item.value]

\* faulty variant: an exception thrown inside a composite ends that composite
\* and the enclosing one goes on
Raise_Resume(s, r) ==
    [s EXCEPT !.pos = r.pos,
              !.examined = Max(@, r.ex),
              !.pc = IF s.stack # <<>> THEN "close"
                     ELSE IF r.exc = ParseError THEN "catch" ELSE "terminate",
              !.exc = [exc |-> r.exc, msg |-> r.msg],
              !.events = Append(@, Event("throw", Top(s.stack), s, r.pos,
                                         Len(s.out), Len(s.out), NoItem))]

\* an exception leaves the operation: json::parse_error is caught by main,
\* anything else (std::invalid_argument, std::out_of_range) is not
Raise(s, r) ==
    [s EXCEPT !.pos = r.pos,
              !.examined = Max(@, r.ex),
              !.pc = IF r.exc = ParseError THEN "catch" ELSE "terminate",
              !.exc = [exc |-> r.exc, msg |-> r.msg],
              !.events = Append(@, Event("throw", Top(s.stack), s, r.pos,
                                         Len(s.out), Len(s.out), NoItem))]

\* the lexer parse() makes (std::make_shared<lexer>)
ParseLexer == 1

\* the lexer a decoding step hands to the stream it constructs: parse() hands
\* on the one it made, a stream its own lexer_ (parse_value(lexer_))
LexerOf(s) == IF s.stack = <<>> THEN ParseLexer ELSE s.streams[Top(s.stack)].lexer

\* faulty variant: a composite yielded by a stream reads through a lexer of
\* its own
Accept_OwnLexer(s, r, key, op) ==
    LET id   == Len(s.streams) + 1
        item == [key |-> key,
                 value |-> IF IsStream(r.value) THEN [type |-> r.value.type, id |-> id]
                           ELSE r.value]
    IN  [s EXCEPT !.pos = r.pos,
                  !.examined = Max(@, r.ex),
                  !.streams = IF IsStream(r.value)
                              THEN Append(@, [kind |-> IF r.value.type = "object_stream"
                                                       THEN "object" ELSE "array",
                                              lexer |-> IF s.stack = <<>> THEN LexerOf(s) ELSE id + 1,
                                              first |-> TRUE, spent |-> FALSE,
                                              parent |-> Top(s.stack),
                                              level |-> Len(s.stack), count |-> 0])
                              ELSE @,
                  !.cur = item,
                  !.events = Append(@, Event(op, Top(s.stack), s, r.pos,
                                             Len(s.out), Len(s.out), item))]

\* a decoded value becomes the current item; a composite is a new stream
Accept(s, r, key, op) ==
    LET id   == Len(s.streams) + 1
        item == [key |-> key,
                 value |-> IF IsStream(r.value) THEN [type |-> r.value.type, id |-> id]
                           ELSE r.value]
    IN  [s EXCEPT !.pos = r.pos,
                  !.examined = Max(@, r.ex),
                  !.streams = IF IsStream(r.value)
                              THEN Append(@, [kind |-> IF r.value.type = "object_stream"
                                                       THEN "object" ELSE "array",
                                              lexer |-> LexerOf(s),
                                              first |-> TRUE, spent |-> FALSE,
                                              parent |-> Top(s.stack),
                                              level |-> Len(s.stack), count |-> 0])
                              ELSE @,
                  !.cur = item,
                  !.events = Append(@, Event(op, Top(s.stack), s, r.pos,
                                             Len(s.out), Len(s.out), item))]

\* faulty variant: a scalar document must be the whole input
DoParse_Strict(in, s) ==
    With(parse_value(in, s.pos), LAMBDA r :
      IF r.exc # NoExc THEN Raise(s, r)
      ELSE IF ~IsStream(r.value) /\ r.pos < Len(in)
      THEN Raise(s, Thrown(r, Len(in), ParseError, "Unexpected trailing input"))
      ELSE [Accept(s, r, NoKey, "parse") EXCEPT !.pc = "value"])

\* main: json::parse(std::move(input))
DoParse(in, s) ==
    With(parse_value(in, s.pos), LAMBDA r :
      IF r.exc # NoExc THEN Raise(s, r)
      ELSE [Accept(s, r, NoKey, "parse") EXCEPT !.pc = "value"])

Resume(stack) == IF stack = <<>> THEN "newline" ELSE "next"

\* faulty variant: a composite item is opened but its loop is not run
DoValue_NoDescend(im, s) ==
    LET v    == s.cur.value
        text == IF IsStream(v) THEN <<OpenBracket(s.streams[v.id].kind)>>
                ELSE IF v.type = "string" THEN SerializeString(im, v.s)
                ELSE SerializeNumber(im, v)
    IN  [s EXCEPT !.out = @ \o text,
                  !.stack = IF IsStream(v) /\ s.stack = <<>> THEN Append(@, v.id) ELSE @,
                  !.cur = NoItem,
                  !.pc = IF IsStream(v) THEN "next" ELSE Resume(s.stack),
                  !.events = Append(@, Event(IF IsStream(v) THEN "open" ELSE "scalar",
                                             Top(s.stack), s, s.pos, Len(s.out),
                                             Len(s.out) + Len(text), s.cur))]

\* serialize of the current value: a scalar is written, a composite writes
\* its opening bracket and starts its loop
DoValue(im, s) ==
    LET v    == s.cur.value
        text == IF IsStream(v) THEN <<OpenBracket(s.streams[v.id].kind)>>
                ELSE IF v.type = "string" THEN SerializeString(im, v.s)
                ELSE SerializeNumber(im, v)
    IN  [s EXCEPT !.out = @ \o text,
                  !.stack = IF IsStream(v) THEN Append(@, v.id) ELSE @,
                  !.cur = NoItem,
                  !.pc = IF IsStream(v) THEN "next" ELSE Resume(s.stack),
                  !.events = Append(@, Event(IF IsStream(v) THEN "open" ELSE "scalar",
                                             Top(s.stack), s, s.pos, Len(s.out),
                                             Len(s.out) + Len(text), s.cur))]

\* faulty variant: the loop asks the outermost running stream
DoNext_Outermost(in, im, s) ==
    With(s.stack[1], LAMBDA id :
      With(next_value(im, s.streams[id].kind, in, s.pos, s.streams[id].first), LAMBDA r :
        IF r.exc # NoExc THEN Raise(s, r)
        ELSE IF r.end
        THEN [s EXCEPT !.pos = r.pos,
                       !.examined = Max(@, r.ex),
                       !.streams[id].spent = TRUE,
                       !.pc = "close",
                       !.events = Append(@, Event("end", id, s, r.pos,
                                                  Len(s.out), Len(s.out), NoItem))]
        ELSE [Accept(s, r, r.key, "next") EXCEPT !.streams[id].first = FALSE,
                                                 !.streams[id].count = @ + 1,
                                                 !.pc = "item"]))

\* the loop of serialize asks the innermost running stream for its next item
\* (iterator construction in begin(), operator++ afterwards)
DoNext(in, im, s) ==
    With(Top(s.stack), LAMBDA id :
      With(next_value(im, s.streams[id].kind, in, s.pos, s.streams[id].first), LAMBDA r :
        IF r.exc # NoExc THEN Raise(s, r)
        ELSE IF r.end
        THEN [s EXCEPT !.pos = r.pos,
                       !.examined = Max(@, r.ex),
                       !.streams[id].spent = TRUE,
                       !.pc = "close",
                       !.events = Append(@, Event("end", id, s, r.pos,
                                                  Len(s.out), Len(s.out), NoItem))]
        ELSE [Accept(s, r, r.key, "next") EXCEPT !.streams[id].first = FALSE,
                                                 !.streams[id].count = @ + 1,
                                                 !.pc = "item"]))

\* faulty variant: a pair whose key the object already emitted is dropped
DoItem_Dedup(im, ib, s) ==
    LET id     == Top(s.stack)
        st     == s.streams[id]
        layout == ItemSeparator(st.count) \o indent(ib, st.level + 1)
        key    == IF st.kind = "object" THEN SerializeKey(im, s.cur.key) ELSE <<>>
    IN  IF /\ st.kind = "object"
           /\ ~IsStream(s.cur.value)
           /\ \E k \in DOMAIN s.events :
                 /\ s.events[k].op = "item"
                 /\ s.events[k].stream = id
                 /\ s.events[k].key = s.cur.key
        THEN [s EXCEPT !.cur = NoItem, !.pc = "next"]
        ELSE [s EXCEPT !.out = @ \o layout \o key,
                       !.pc = "value",
                       !.events = Append(@, Event("item", id, s, s.pos,
                                                  Len(s.out) + Len(layout),
                                                  Len(s.out) + Len(layout) + Len(key),
                                                  s.cur))]

\* what serialize writes before the value of an item: the separator, the
\* indentation of level + 1 and, in an object, the key
DoItem(im, ib, s) ==
    LET id     == Top(s.stack)
        st     == s.streams[id]
        layout == ItemSeparator(st.count) \o indent(ib, st.level + 1)
        key    == IF st.kind = "object" THEN SerializeKey(im, s.cur.key) ELSE <<>>
    IN  [s EXCEPT !.out = @ \o layout \o key,
                  !.pc = "value",
                  !.events = Append(@, Event("item", id, s, s.pos,
                                             Len(s.out) + Len(layout),
                                             Len(s.out) + Len(layout) + Len(key),
                                             s.cur))]

\* faulty variant: the loop of a composite that has ended is not left
DoClose_NoPop(ib, s) ==
    LET id     == Top(s.stack)
        st     == s.streams[id]
        layout == indent(ib, st.level)
    IN  [s EXCEPT !.out = @ \o layout \o <<CloseBracket(st.kind)>>,
                  !.pc = "next",
                  !.events = Append(@, Event("close", id, s, s.pos,
                                             Len(s.out) + Len(layout),
                                             Len(s.out) + Len(layout) + 1, NoItem))]

\* faulty variant: a composite without items is closed right behind its
\* opening bracket
DoClose_Tight(ib, s) ==
    LET id     == Top(s.stack)
        st     == s.streams[id]
        layout == IF st.count = 0 THEN <<>> ELSE indent(ib, st.level)
        rest   == SubSeq(s.stack, 1, Len(s.stack) - 1)
    IN  [s EXCEPT !.out = @ \o layout \o <<CloseBracket(st.kind)>>,
                  !.stack = rest,
                  !.pc = Resume(rest),
                  !.events = Append(@, Event("close", id, s, s.pos,
                                             Len(s.out) + Len(layout),
                                             Len(s.out) + Len(layout) + 1, NoItem))]

\* after the end of the sequence: indentation of level and the closing bracket
DoClose(ib, s) ==
    LET id     == Top(s.stack)
        st     == s.streams[id]
        layout == indent(ib, st.level)
        rest   == SubSeq(s.stack, 1, Len(s.stack) - 1)
    IN  [s EXCEPT !.out = @ \o layout \o <<CloseBracket(st.kind)>>,
                  !.stack = rest,
                  !.pc = Resume(rest),
                  !.events = Append(@, Event("close", id, s, s.pos,
                                             Len(s.out) + Len(layout),
                                             Len(s.out) + Len(layout) + 1, NoItem))]

\* main: std::cout << "\n"; return 0
DoNewline(s) ==
    [s EXCEPT !.out = @ \o <<"\n">>, !.status = 0, !.pc = "done"]

\* faulty variant: the handler also ends the line on standard output
DoCatch_Newline(s) ==
    [s EXCEPT !.out = @ \o <<"\n">>,
              !.err = Append(@, "JSON parse error: " \o s.exc.msg),
              !.status = 1, !.pc = "done"]

\* main: catch (const json::parse_error& e): message to std::cerr, return 1
DoCatch(s) ==
    [s EXCEPT !.err = Append(@, "JSON parse error: " \o s.exc.msg),
              !.status = 1, !.pc = "done"]

\* an exception main does not catch: std::terminate, the process aborts
DoTerminate(s) ==
    [s EXCEPT !.err = Append(@, "terminate called after throwing an instance of '"
                                \o s.exc.exc \o "'"),
              !.status = 134, !.pc = "done"]

Step(in, im, ib, s) ==
    CASE s.pc = "parse"     -> DoParse(in, s)
      [] s.pc = "value"     -> DoValue(im, s)
      [] s.pc = "next"      -> DoNext(in, im, s)
      [] s.pc = "item"      -> DoItem(im, ib, s)
      [] s.pc = "close"     -> DoClose(ib, s)
      [] s.pc = "newline"   -> DoNewline(s)
      [] s.pc = "catch"     -> DoCatch(s)
      [] s.pc = "terminate" -> DoTerminate(s)
      [] OTHER              -> s

\* the whole run on a complete input
RECURSIVE RunFrom(_, _, _, _)
RunFrom(in, im, ib, s) ==
    IF s.pc = "done" THEN s ELSE RunFrom(in, im, ib, Step(in, im, ib, s))

Run(in, im, ib) == RunFrom(in, im, ib, InitState)

(***************************************************************************)
(* The state machine.  The program reads std::cin through one              *)
(* istreambuf_iterator; the environment delivers the input in chunks, on   *)
(* demand, and at some point reports the end of the stream.                *)
(***************************************************************************)
VARIABLES impl, indent_base, input, eof, nfed, nrare,
          pos, examined, pc, cur, streams, stack, out, err, status, exc, events

env  == <<impl, indent_base, input, eof, nfed, nrare>>
prog == <<pos, examined, pc, cur, streams, stack, out, err, status, exc, events>>
vars == <<impl, indent_base, input, eof, nfed, nrare,
          pos, examined, pc, cur, streams, stack, out, err, status, exc, events>>

\* bounds of the model
MaxChunks == 5
MaxRare == 1
MaxIndent == 2

Implementations == {"cpp23", "cpp17"}
IndentWidths == {0, MaxIndent}

\* what one read of the stream may deliver: the frequent pieces of a
\* document (tokens, a whole pair "k":1, a key with its colon "c":) ...
PlainChunks ==
    { <<"{">>, <<"}">>, <<"[">>, <<"]">>, <<",">>, <<"1">>,
      <<"\"", "k", "\"", ":", "1">>, <<"\"", "c", "\"", ":">> }

\* ... and the rarer ones: a lone colon, strings, a key with a newline,
\* whitespace, odd numbers, a number with two '.', a character that starts
\* no token (the 'e' of an exponent), a ',' with the element behind it
RareChunks ==
    { <<":">>, <<"\"", "a", "\"">>, <<" ", "\n">>, <<"e", "1">>, <<"\"", "b">>,
      <<"\"", "\\", "\"">>, <<"\"", "\n", "\"">>, <<"\"", "\n", "\"", ":">>,
      <<"-">>, <<".">>, <<"0">>, <<"-", "0", ".", "0">>,
      <<"0", ".", "0", "0", "0", "0", "1">>, Int64MinDigits,
      <<"1", ".", "1", ".", "1">>, <<",", "1">> }

\* the numeric literals of the model with a '.' have at most DBL_DIG digits
RECURSIVE FloatsInDomain(_, _, _, _)
FloatsInDomain(in, i, nd, dot) ==
    IF i > Len(in) THEN dot => nd <= DBL_DIG
    ELSE IF IsDigit(in[i]) THEN FloatsInDomain(in, i + 1, nd + 1, dot)
    ELSE IF in[i] = "." THEN FloatsInDomain(in, i + 1, nd, TRUE)
    ELSE (dot => nd <= DBL_DIG) /\ FloatsInDomain(in, i + 1, 0, FALSE)

St ==
    [pos |-> pos, examined |-> examined, pc |-> pc, cur |-> cur, streams |-> streams,
     stack |-> stack, out |-> out, err |-> err, status |-> status, exc |-> exc,
     events |-> events]

\* a step happens once the stream holds every character it looks at
Take(t) ==
    /\ t.examined <= Len(input) \/ eof
    /\ pos' = t.pos
    /\ examined' = t.examined
    /\ pc' = t.pc
    /\ cur' = t.cur
    /\ streams' = t.streams
    /\ stack' = t.stack
    /\ out' = t.out
    /\ err' = t.err
    /\ status' = t.status
    /\ exc' = t.exc
    /\ events' = t.events
    /\ UNCHANGED env

Init ==
    /\ impl \in Implementations
    /\ indent_base \in IndentWidths
    /\ input = <<>>
    /\ eof = FALSE
    /\ nfed = 0
    /\ nrare = 0
    /\ pos = InitState.pos
    /\ examined = InitState.examined
    /\ pc = InitState.pc
    /\ cur = InitState.cur
    /\ streams = InitState.streams
    /\ stack = InitState.stack
    /\ out = InitState.out
    /\ err = InitState.err
    /\ status = InitState.status
    /\ exc = InitState.exc
    /\ events = InitState.events

\* the next step of the program needs a character the stream has not
\* delivered yet
Starving ==
    /\ ~eof
    /\ pc \in {"parse", "next"}
    /\ Step(input, impl, indent_base, St).examined > Len(input)

FeedPlain ==
    /\ nfed < MaxChunks
    /\ Starving
    /\ \E c \in PlainChunks : input' = input \o c
    /\ nfed' = nfed + 1
    /\ UNCHANGED <<impl, indent_base, eof, nrare>>
    /\ UNCHANGED prog

FeedRare ==
    /\ nfed < MaxChunks
    /\ nrare < MaxRare
    /\ Starving
    /\ \E c \in RareChunks :
         /\ FloatsInDomain(input \o c, 1, 0, FALSE)
         /\ input' = input \o c
    /\ nfed' = nfed + 1
    /\ nrare' = nrare + 1
    /\ UNCHANGED <<impl, indent_base, eof>>
    /\ UNCHANGED prog

EndOfStream ==
    /\ Starving
    /\ eof' = TRUE
    /\ UNCHANGED <<impl, indent_base, input, nfed, nrare>>
    /\ UNCHANGED prog

Parse == pc = "parse" /\ Take(DoParse(input, St))

SerializeValue == pc = "value" /\ Take(DoValue(impl, St))

NextValue == pc = "next" /\ Take(DoNext(input, impl, St))

SerializeItem == pc = "item" /\ Take(DoItem(impl, indent_base, St))

CloseComposite == pc = "close" /\ Take(DoClose(indent_base, St))

Newline == pc = "newline" /\ Take(DoNewline(St))

CatchParseError == pc = "catch" /\ Take(DoCatch(St))

Terminate == pc = "terminate" /\ Take(DoTerminate(St))

Next ==
    \/ FeedPlain
    \/ FeedRare
    \/ EndOfStream
    \/ Parse
    \/ SerializeValue
    \/ NextValue
    \/ SerializeItem
    \/ CloseComposite
    \/ Newline
    \/ CatchParseError
    \/ Terminate

Spec == Init /\ [][Next]_vars

\* the steps of main that read the stream: parse() and the next-item steps
ReadStep == Parse \/ NextValue

\* the steps of main that read nothing: the serializer's writes, the end of
\* main, the handler
WriteStep ==
    \/ SerializeValue
    \/ SerializeItem
    \/ CloseComposite
    \/ Newline
    \/ CatchParseError
    \/ Terminate

\* the stream holds what the next reading step looks at: ENABLED <<ReadStep>>_vars
Readable ==
    /\ pc \in {"parse", "next"}
    /\ Step(input, impl, indent_base, St).examined <= Len(input) \/ eof

\* the program runs whenever it can, and the stream is finite: a read that
\* waits for a character is answered, in the end by the end of the stream.
\* The last two conjuncts are WF_vars(ReadStep) and WF_vars(EndOfStream),
\* written out with their enabling conditions Readable and Starving.
FairSpec ==
    /\ Spec
    /\ WF_vars(WriteStep)
    /\ []<>(~Readable) \/ []<><<ReadStep>>_vars
    /\ []<>(~Starving) \/ []<><<EndOfStream>>_vars

(***************************************************************************)
(* Properties                                                              *)
(***************************************************************************)
\* what serialize produced: standard output without main's final newline
SerializedOf(r) == IF r.status = 0 THEN SubSeq(r.out, 1, Len(r.out) - 1) ELSE r.out

Serialized == SerializedOf(St)

LastEvent == events[Len(events)]

\* C1: compact round trip: when a run with indent width 0 succeeds with the
\* serialized text s, the run on input s succeeds too and serializes to s.
C1_CompactRoundTrip ==
    (pc = "done" /\ status = 0 /\ indent_base = 0) =>
        LET r == Run(Serialized, impl, 0)
        IN  r.status = 0 /\ SerializedOf(r) = Serialized

\* C2 as stated: a run that ends with exit status 1 has written nothing to
\* standard output.
C2_NoOutputOnFailure == status = 1 => out = <<>>

\* C2 amended: a run that ends with exit status 1 has written to standard
\* output exactly what was serialized before the failing step: nothing when
\* parse() itself failed, otherwise a text that begins with the opening
\* bracket of the top-level composite; nothing is written after the throw.
C2_OutputIsSerializedPrefix ==
    status = 1 =>
        /\ LastEvent.op = "throw"
        /\ Len(out) = LastEvent.len
        /\ out = <<>> <=> Len(events) = 1
        /\ out # <<>> => out[1] = OpenBracket(streams[1].kind)

\* C2 witness: a failure behind the first item of the top-level composite
C2_FailureAfterFirstItem ==
    status = 1 /\ streams # <<>> /\ streams[1].count >= 1 /\ out # <<>>

\* C3: every run that does not succeed ends with exit status 1 and exactly
\* one line "JSON parse error: <message>" on standard error, the message of
\* a json::parse_error.
C3_SingleErrorPath ==
    (pc = "done" /\ status # 0) =>
        /\ status = 1
        /\ exc.exc = ParseError
        /\ err = <<"JSON parse error: " \o exc.msg>>

\* the events of the given kinds in the loop of stream id, in order
EventsOf(ops, id) == SelectSeq(events, LAMBDA e : e.op \in ops /\ e.stream = id)

\* the characters a step wrote after its layout
Text(e) == SubSeq(out, e.at + 1, e.len)

\* what serialize writes for a decoded value: a scalar's text, or the opening
\* bracket of a composite
ValueText(v) ==
    IF IsStream(v) THEN <<OpenBracket(streams[v.id].kind)>>
    ELSE IF v.type = "string" THEN SerializeString(impl, v.s)
    ELSE SerializeNumber(impl, v)

\* the key the input holds in the span of a decoded pair: its first string
KeyInSpan(e) == parse_string(input, FindQuote(input, e.from + 1) - 1)

\* C4: order preservation: for every object or array whose sequence has
\* ended, the items it decoded, the keys and the values the serializer wrote
\* for it correspond one to one, in the same order: item i is decoded from a
\* span of the input that lies before the span of item i + 1, its key is the
\* string of that span, and its key and value are written before those of
\* item i + 1; no pair is dropped or merged, equal keys included.
C4_OrderPreserved ==
    \A id \in DOMAIN streams :
        streams[id].spent =>
            LET D == EventsOf({"next"}, id)
                K == EventsOf({"item"}, id)
                V == EventsOf({"scalar", "open"}, id)
            IN  /\ Len(D) = streams[id].count
                /\ Len(K) = Len(D)
                /\ Len(V) = Len(D)
                /\ \A i \in DOMAIN D :
                     /\ K[i].key = D[i].key /\ K[i].value = D[i].value
                     /\ V[i].key = D[i].key /\ V[i].value = D[i].value
                     /\ D[i].from < D[i].to
                     /\ i < Len(D) => D[i].to <= D[i + 1].from
                     /\ K[i].at <= K[i].len /\ K[i].len = V[i].at /\ V[i].at < V[i].len
                     /\ i < Len(D) => V[i].len <= K[i + 1].at
                     /\ Text(V[i]) = ValueText(D[i].value)
                     /\ streams[id].kind = "object" =>
                          /\ KeyInSpan(D[i]).pos <= D[i].to
                          /\ KeyInSpan(D[i]).value.s = D[i].key
                          /\ Text(K[i]) = SerializeKey(impl, D[i].key)
                     /\ streams[id].kind = "array" => K[i].at = K[i].len

\* C4 witness: an object with two pairs of the same key was serialized
C4_DuplicateKeysEmitted ==
    /\ status = 0
    /\ \E id \in DOMAIN streams :
         /\ streams[id].kind = "object"
         /\ Len(EventsOf({"item"}, id)) = 2
         /\ EventsOf({"item"}, id)[1].key = EventsOf({"item"}, id)[2].key

IsPairEvent(e) == e.op = "item" /\ streams[e.stream].kind = "object"

\* C5: compact object format: with indent width 0 every pair of an object is
\* written as the quoted key directly followed by ':' and nothing else, right
\* after the '{' or the ',' (no whitespace between the tokens), in both
\* programs.
C5_CompactObjectFormat ==
    indent_base = 0 =>
        \A k \in DOMAIN events :
            IsPairEvent(events[k]) =>
                /\ Text(events[k]) = SerializeString(impl, events[k].key) \o <<":">>
                /\ out[events[k].at] \in {"{", ","}

\* C6: every pair of an object is written as the quoted key followed by the
\* two characters ':' and ' ', for every indent width.
C6_ColonSpaceAfterKey ==
    \A k \in DOMAIN events :
        IsPairEvent(events[k]) =>
            Text(events[k]) = SerializeString(impl, events[k].key) \o <<":", " ">>

HasNewline(str) == \E j \in DOMAIN str : str[j] = "\n"

\* out[i] is a character of a key or of a string value that the serializer
\* copied from the input (the quotes around it excluded)
InString(i) ==
    \E k \in DOMAIN events :
        /\ events[k].at + 1 < i
        /\ \/ /\ IsPairEvent(events[k])
              /\ i < events[k].len - (IF impl = "cpp23" THEN 2 ELSE 1)
           \/ /\ events[k].op = "scalar"
              /\ events[k].value.type = "string"
              /\ i < events[k].len

\* C7 as stated: with indent width 0 the serialized output of a successful
\* run holds no newline character.
C7_NoNewlineWhenCompact ==
    (status = 0 /\ indent_base = 0) =>
        \A i \in DOMAIN Serialized : Serialized[i] # "\n"

\* C7 amended: with indent width 0 the serializer inserts no newline of its
\* own: every newline of the serialized output is a character of a key or of
\* a string value, copied from the input.
C7_NewlinesOnlyFromStrings ==
    indent_base = 0 =>
        \A i \in DOMAIN Serialized :
            Serialized[i] = "\n" =>
                /\ InString(i)
                /\ \E k \in DOMAIN events :
                     /\ events[k].at < i /\ i <= events[k].len
                     /\ \/ IsPairEvent(events[k]) /\ HasNewline(events[k].key)
                        \/ /\ events[k].op = "scalar"
                           /\ events[k].value.type = "string"
                           /\ HasNewline(events[k].value.s)

\* C7 witness: a compact array that holds a string with a newline was serialized
C7_CompactStringWithNewline ==
    /\ status = 0 /\ indent_base = 0 /\ streams # <<>>
    /\ \E k \in DOMAIN events :
         /\ events[k].op = "scalar" /\ events[k].stream # 0
         /\ events[k].value.type = "string" /\ HasNewline(events[k].value.s)

\* nesting depth of a composite: 0 for the top-level value
RECURSIVE Depth(_)
Depth(id) == IF streams[id].parent = 0 THEN 0 ELSE 1 + Depth(streams[id].parent)

\* out holds a newline and exactly n spaces right before position at + 1
Indented(at, n) ==
    /\ at > n
    /\ out[at - n] = "\n"
    /\ \A j \in (at - n + 1) .. at : out[j] = " "

\* out[i] belongs to the newline and spaces before an item or closing bracket
InLayout(i) ==
    \E k \in DOMAIN events :
        /\ events[k].op \in {"item", "close"}
        /\ i <= events[k].at
        /\ i >= events[k].at - indent_base * (Depth(events[k].stream)
                                              + IF events[k].op = "item" THEN 1 ELSE 0)

\* out[i] belongs to a token: a key with its colon, a scalar, a bracket
InToken(i) == \E k \in DOMAIN events : events[k].at < i /\ i <= events[k].len

\* C8: with indent width N > 0 every key or element at depth L is preceded by
\* a newline and exactly N * L spaces, the closing bracket of a composite at
\* depth L is preceded by a newline and exactly N * L spaces, and the output
\* holds nothing else but tokens and the "," between items: every other
\* newline is a character of a string.
C8_IndentationByDepth ==
    indent_base > 0 =>
        /\ \A k \in DOMAIN events :
             /\ events[k].op = "item" =>
                  Indented(events[k].at, indent_base * (Depth(events[k].stream) + 1))
             /\ events[k].op = "close" =>
                  Indented(events[k].at, indent_base * Depth(events[k].stream))
        /\ \A i \in DOMAIN Serialized :
             /\ InToken(i) \/ InLayout(i) \/ out[i] = ","
             /\ (out[i] = "\n" /\ ~InLayout(i)) => InString(i)

\* C8 witness: an indented run serialized an item at depth 2 and closed both
\* composites
C8_NestedItemIndented ==
    /\ status = 0 /\ indent_base > 0
    /\ \E id \in DOMAIN streams : streams[id].parent # 0 /\ streams[id].count >= 1

\* what may follow a complete document on the input
Trailers ==
    { <<"1">>, <<".">>, <<".", "5">>, <<"x">>, <<",", "1">>, <<" ", "]">>,
      <<"\"">>, <<"-">>, <<"\n", "{">> }

\* the top-level value is a number whose last character ends the input
NumberAtEnd ==
    /\ events # <<>>
    /\ events[1].op = "parse"
    /\ events[1].value.type \in {"int64_t", "double"}
    /\ events[1].to = Len(input)

\* t begins with a character that parse_number takes into a number
Extends(t) == IsDigit(t[1]) \/ t[1] = "."

\* C9 as stated: when a run on input v succeeds, the run on v followed by any
\* t succeeds with the same output, and looks at no character of t.
C9_TrailingInputIgnored ==
    (pc = "done" /\ status = 0) =>
        \A t \in Trailers :
            LET r == Run(input \o t, impl, indent_base)
            IN  r.status = 0 /\ r.out = out /\ r.examined <= Len(input)

\* C9 amended: when a run on input v succeeds, the run on v followed by t
\* succeeds with the same output and consumes no character of t, unless v
\* ends with the last character of a top-level number and t begins with a
\* digit or '.'; the first character of t is looked at exactly when v ends
\* with a top-level number, and no later character of t ever is.
C9_TrailingInputIgnoredUnlessNumberExtends ==
    (pc = "done" /\ status = 0) =>
        \A t \in Trailers :
            LET r == Run(input \o t, impl, indent_base)
            IN  /\ ~(NumberAtEnd /\ Extends(t)) =>
                     /\ r.status = 0 /\ r.out = out /\ r.err = <<>>
                     /\ r.pos = pos
                     /\ r.examined = IF NumberAtEnd THEN Len(input) + 1 ELSE examined
                /\ ~NumberAtEnd => r.examined <= Len(input)

\* C9 witness: a run succeeded on a top-level number that ends the input, and
\* another on a composite
C9_DocumentComplete ==
    /\ pc = "done" /\ status = 0 /\ input # <<>>
    /\ NumberAtEnd \/ streams # <<>>

\* the stream that yielded composite c asks for its next item
YieldedBy(c) == streams[c].parent

\* the end-of-sequence event of stream c, if any
EndOf(c) == EventsOf({"end"}, c)

\* C10: whenever the serializer asks a stream for its next item, every
\* composite that stream has yielded before has signalled its end of
\* sequence, and the cursor stands right behind the previous item: behind the
\* closing bracket of a composite child, where its end-of-sequence step left
\* it, behind a scalar item, or behind the stream's own opening bracket.
C10_ChildrenDrainedBeforeNext ==
    pc = "next" =>
        /\ \A c \in DOMAIN streams :
               YieldedBy(c) = Top(stack) => streams[c].spent /\ Len(EndOf(c)) = 1
        /\ LET D == EventsOf({"next"}, Top(stack))
               v == D[Len(D)].value
           IN  IF D = <<>>
               THEN input[pos] = OpenBracket(streams[Top(stack)].kind)
               ELSE IF IsStream(v)
               THEN /\ EndOf(v.id)[1].to = pos
                    /\ input[pos] = CloseBracket(streams[v.id].kind)
               ELSE D[Len(D)].to = pos

\* C10 witness: the next item is asked of a stream behind a composite child
C10_NextAfterCompositeChild ==
    /\ pc = "next"
    /\ \E c \in DOMAIN streams : YieldedBy(c) = Top(stack) /\ streams[c].count >= 1
    /\ LastEvent.op = "close"

(***************************************************************************)
(* The step the program takes next, and the places of the input it looks   *)
(* at                                                                      *)
(***************************************************************************)
\* the state after the next step of the program
NextStep == Step(input, impl, indent_base, St)

\* the stream holds every character the next step looks at
StepEnabled == NextStep.examined <= Len(input) \/ eof

\* the next step throws json::parse_error with the given message
Fails(msg) ==
    NextStep.pc = "catch" /\ NextStep.exc = [exc |-> ParseError, msg |-> msg]

EOF == "<end of input>"

\* the first character after the whitespace that follows position p
NextChar(p) ==
    IF SkipSpace(input, p) = Len(input) THEN EOF ELSE input[SkipSpace(input, p) + 1]

\* the kind of token that starts with character c ("none": no token does)
KindOf(c) == IF c = EOF THEN "END_OF_INPUT" ELSE TokenTypeOf(c)

\* the next-item step of a stream of the given kind is about to run
AtNext(kind) == pc = "next" /\ streams[Top(stack)].kind = kind

\* ... and the stream has produced an item before
AtSeparator(kind) == AtNext(kind) /\ streams[Top(stack)].count >= 1

\* C11: object separator rule: when an object stream that has produced a
\* pair is asked for its next item and the next character after whitespace
\* starts a string, a number, a composite or is a colon, or the input has
\* ended, the step fails with "Expected ',' between object pairs".
C11_ObjectSeparatorRule ==
    (/\ AtSeparator("object")
     /\ KindOf(NextChar(pos)) \in {"STRING", "NUMBER", "OBJECT_BEGIN", "ARRAY_BEGIN",
                                   "ARRAY_END", "COLON", "END_OF_INPUT"}
     /\ StepEnabled)
        => Fails("Expected ',' between object pairs")

\* C12: array separator rule: when an array stream that has produced an
\* element is asked for its next item and the next character after whitespace
\* is neither ']' nor ',' but starts a token, or the input has ended, the step
\* fails with "Expected ',' between array elements".
C12_ArraySeparatorRule ==
    (/\ AtSeparator("array")
     /\ KindOf(NextChar(pos)) \in {"STRING", "NUMBER", "OBJECT_BEGIN", "ARRAY_BEGIN",
                                   "OBJECT_END", "COLON", "END_OF_INPUT"}
     /\ StepEnabled)
        => Fails("Expected ',' between array elements")

NoPos == 0 - 1

\* where the running stream expects its next key or element: behind the
\* whitespace before the first item, behind the ',' before a later one; NoPos
\* when the stream ends there or the ',' is missing
ItemPos ==
    IF NextChar(pos) = CloseBracket(streams[Top(stack)].kind) THEN NoPos
    ELSE IF streams[Top(stack)].first THEN SkipSpace(input, pos)
    ELSE IF NextChar(pos) = "," THEN SkipSpace(input, pos) + 1
    ELSE NoPos

\* the token at the key position of the running object
KeyToken == next_token(input, ItemPos)

AtKey == AtNext("object") /\ ItemPos # NoPos

\* the token behind the key, when the key is a string
ColonToken == next_token(input, KeyToken.pos)

AtColon == AtKey /\ KeyToken.exc = NoExc /\ KeyToken.type = "STRING"

\* the step decodes no item, constructs no stream and writes nothing
NothingDecoded ==
    NextStep.cur = cur /\ NextStep.streams = streams /\ NextStep.out = out

\* C13: object key rule: at a key position of an object (behind '{' when the
\* object does not end there, or behind a ','), when the next token is a
\* well-formed token that is no string, or the input has ended, the step
\* fails with "Expected string key".
C13_ObjectKeyRule ==
    (AtKey /\ KeyToken.exc = NoExc /\ KeyToken.type # "STRING" /\ StepEnabled)
        => Fails("Expected string key")

\* C13 witness: a ',' followed by '}' has failed with "Expected string key"
C13_TrailingCommaRejected ==
    /\ pc = "done" /\ status = 1
    /\ exc.msg = "Expected string key"
    /\ streams[Top(stack)].count >= 1
    /\ input[IF impl = "cpp23" THEN pos + 1 ELSE pos] = "}"

\* C14: object colon rule: behind the key of a pair, when the next token is a
\* well-formed token that is no ':', or the input has ended, the step fails
\* with "Expected ':' after key" and decodes no value.
C14_ObjectColonRule ==
    (AtColon /\ ColonToken.exc = NoExc /\ ColonToken.type # "COLON" /\ StepEnabled)
        => Fails("Expected ':' after key") /\ NothingDecoded

\* C14 witness: a key followed by a number has failed with "Expected ':' after
\* key"
C14_MissingColonRejected ==
    /\ pc = "done" /\ status = 1
    /\ exc.msg = "Expected ':' after key"
    /\ out = <<"{">>
    /\ \E i \in DOMAIN input : IsDigit(input[i])

\* where the next step calls parse_value: at the cursor for the top-level
\* value, at the element position of an array, behind the ':' of a pair;
\* NoPos when the step does not get that far
ValuePos ==
    IF pc = "parse" THEN pos
    ELSE IF pc # "next" THEN NoPos
    ELSE IF streams[Top(stack)].kind = "array" THEN ItemPos
    ELSE IF ItemPos = NoPos THEN NoPos
    ELSE LET k == KeyToken
             c == ColonToken
         IN  IF k.exc = NoExc /\ k.type = "STRING" /\ c.exc = NoExc /\ c.type = "COLON"
             THEN c.pos
             ELSE NoPos

NoValueKinds == {"OBJECT_END", "ARRAY_END", "COMMA", "COLON", "END_OF_INPUT"}

\* C15: a step that decodes a value (the top-level parse, an array element, the
\* value of a pair) fails with "Expected value" exactly when the token at the
\* value position is '}', ']', ',', ':' or the end of the input; a step that
\* does not reach a value position never fails with this message.
C15_ExpectedValueRule ==
    pc \in {"parse", "next"} =>
        LET t == NextStep
        IN  (t.examined <= Len(input) \/ eof) =>
                (t.pc = "catch" /\ t.exc = [exc |-> ParseError, msg |-> "Expected value"])
                    <=> LET v == ValuePos
                        IN  v # NoPos /\ KindOf(NextChar(v)) \in NoValueKinds

\* C15 witness: a ',' followed by ']' has failed with "Expected value"
C15_ArrayTrailingCommaRejected ==
    /\ pc = "done" /\ status = 1
    /\ exc.msg = "Expected value"
    /\ stack # <<>>
    /\ streams[Top(stack)].kind = "array" /\ streams[Top(stack)].count >= 1
    /\ input[pos] = "," /\ input[pos + 1] = "]"

\* the positions at which the next step looks for the start of a token: the
\* cursor, the key or element position, the position behind the key, the
\* value position
InspectedPositions ==
    IF pc = "parse" THEN {pos}
    ELSE IF pc # "next" THEN {}
    ELSE LET i == ItemPos
             k == KeyToken
         IN  ({pos, i, ValuePos}
                  \cup (IF /\ streams[Top(stack)].kind = "object" /\ i # NoPos
                           /\ k.exc = NoExc /\ k.type = "STRING"
                        THEN {k.pos} ELSE {}))
                 \ {NoPos}

\* C16: lexical errors come first: when the character the next step finds
\* where it looks for a token (after whitespace) starts no token, the step
\* fails with "Unexpected character: <that character>", at top level and in
\* every object and array step, and with no other error.
C16_LexicalErrorFirst ==
    pc \in {"parse", "next"} =>
        \A p \in InspectedPositions :
            (KindOf(NextChar(p)) = "none" /\ StepEnabled) =>
                Fails("Unexpected character: " \o NextChar(p))

\* C16 witness: a character that starts no token stood where an object that
\* has a pair expects ',' or '}', and the run failed on the character
C16_UnexpectedCharacterBehindPair ==
    /\ pc = "done" /\ status = 1
    /\ stack # <<>>
    /\ streams[Top(stack)].kind = "object" /\ streams[Top(stack)].count >= 1
    /\ pos < Len(input)
    /\ exc.msg = "Unexpected character: " \o input[pos + 1]

\* the positions at which the next step reads a string if one starts there:
\* the key position of an object and the value position
StringPositions ==
    IF pc = "parse" THEN {pos}
    ELSE IF pc # "next" THEN {}
    ELSE ((IF streams[Top(stack)].kind = "object" THEN {ItemPos} ELSE {})
              \cup {ValuePos}) \ {NoPos}

\* a string starts behind the whitespace after p and the input holds no
\* second quote for it
OpenStringAt(p) ==
    /\ NextChar(p) = "\""
    /\ FindQuote(input, SkipSpace(input, p) + 2) > Len(input)

\* C17: a string whose opening quote is followed by no other quote before the
\* end of the input makes the step that reads it fail with "Unterminated
\* string", as the top-level value, as a key, as the value of a pair and as an
\* array element, and the step produces no key and no value.
C17_UnterminatedString ==
    pc \in {"parse", "next"} =>
        \A p \in StringPositions :
            OpenStringAt(p) =>
                LET t == NextStep
                IN  (t.examined <= Len(input) \/ eof) =>
                        /\ t.pc = "catch"
                        /\ t.exc = [exc |-> ParseError, msg |-> "Unterminated string"]
                        /\ t.cur = cur /\ t.streams = streams /\ t.out = out

\* C17 witness: the key of an object was not terminated and the run failed
\* with "Unterminated string" behind the '{'
C17_UnterminatedKeyRejected ==
    /\ pc = "done" /\ status = 1 /\ eof
    /\ exc.msg = "Unterminated string"
    /\ stack # <<>>
    /\ streams[Top(stack)].kind = "object"
    /\ out = <<"{">>
    /\ cur = NoItem

\* the last index of the maximal run of digits and '.' that begins at index i
RECURSIVE RunEnd(_)
RunEnd(i) ==
    IF i <= Len(input) /\ (IsDigit(input[i]) \/ input[i] = ".") THEN RunEnd(i + 1)
    ELSE i - 1

\* the number of '.' in the numeric token that starts at input[p + 1]: an
\* optional '-', then the maximal run of digits and '.'
DotsOfNumberAt(p) ==
    Cardinality({i \in (IF input[p + 1] = "-" THEN p + 2 ELSE p + 1)
                       .. RunEnd(IF input[p + 1] = "-" THEN p + 2 ELSE p + 1) :
                 input[i] = "."})

\* the positions of the input at which a numeric token can start: a digit or
\* '-' that does not continue a token
NumberStarts ==
    {p \in 0 .. Len(input) - 1 :
        /\ KindOf(input[p + 1]) = "NUMBER"
        /\ p > 0 => ~(IsDigit(input[p]) \/ input[p] \in {".", "-"})}

MultiplePoints == "Multiple decimal points in number"

Digits(str) == str # <<>> /\ \A i \in DOMAIN str : IsDigit(str[i])

\* a run of digits without its leading zeros
RECURSIVE Canonical(_)
Canonical(ds) == IF Len(ds) > 1 /\ ds[1] = "0" THEN Canonical(Tail(ds)) ELSE ds

\* the digits are an int64_t, and short enough for both programs to print the
\* double of that value in full
Small(ds) == Len(Canonical(ds)) <= StreamPrecision

\* the whole input is digits followed by a '.' ("1.")
TrailingPointForm ==
    Len(input) >= 2 /\ input[Len(input)] = "." /\ Digits(SubSeq(input, 1, Len(input) - 1))

\* the input begins with a '.' (".5")
LeadingPointForm == input # <<>> /\ input[1] = "."

\* the whole input is digits with a leading zero ("007")
LeadingZeroForm == Len(input) >= 2 /\ Digits(input) /\ input[1] = "0"

\* the whole input is digits, 'e', digits ("1e5"); k is the index of the 'e'
ExponentFormAt(k) ==
    /\ input[k] = "e"
    /\ Digits(SubSeq(input, 1, k - 1))
    /\ Digits(SubSeq(input, k + 1, Len(input)))

\* C19 as stated: an input of the form "1.", ".5", "007" or "1e5" ends in a
\* decoding failure.
C19_OddNumberFormsRejected ==
    (/\ pc = "done"
     /\ \/ TrailingPointForm
        \/ LeadingPointForm
        \/ LeadingZeroForm
        \/ \E k \in DOMAIN input : ExponentFormAt(k))
        => status # 0

\* C19 amended: of these forms only the one that begins with '.' fails, with
\* "Unexpected character: ."; digits followed by '.' are decoded as a double
\* and written as the integer they spell, digits with leading zeros are
\* decoded as the integer without them, and digits followed by an exponent at
\* top level are decoded as the integer before the 'e', the rest being ignored
\* as trailing input (values of at most StreamPrecision digits).
C19_OddNumberFormsMostlyAccepted ==
    pc = "done" =>
        /\ LeadingPointForm =>
               status = 1 /\ exc.msg = "Unexpected character: ." /\ out = <<>>
        /\ (TrailingPointForm /\ Small(SubSeq(input, 1, Len(input) - 1))) =>
               status = 0 /\ Serialized = Canonical(SubSeq(input, 1, Len(input) - 1))
        /\ (LeadingZeroForm /\ Small(input)) =>
               status = 0 /\ Serialized = Canonical(input)
        /\ \A k \in DOMAIN input :
               (ExponentFormAt(k) /\ Small(SubSeq(input, 1, k - 1))) =>
                   /\ status = 0 /\ pos = k - 1
                   /\ Serialized = Canonical(SubSeq(input, 1, k - 1))

\* C19 witness: the input "1." (digits and a '.') was decoded and serialized
C19_TrailingPointAccepted ==
    pc = "done" /\ status = 0 /\ TrailingPointForm /\ eof

Quoted(str) == <<"\"">> \o str \o <<"\"">>

\* the step wrote a string value
IsStringEvent(e) == e.op = "scalar" /\ e.value.type = "string"

\* C20: strings and keys are carried verbatim: every string value is written
\* as a double quote, exactly the characters that stand between its quotes in
\* the input, and a double quote; every key is written the same way before
\* its colon; in both programs.
C20_StringsVerbatim ==
    \A k \in DOMAIN events :
        /\ IsStringEvent(events[k]) =>
               /\ Text(events[k]) = Quoted(events[k].value.s)
               /\ Quoted(events[k].value.s)
                      = SubSeq(input, events[k].from - Len(events[k].value.s) - 1,
                               events[k].from)
        /\ IsPairEvent(events[k]) =>
               SubSeq(out, events[k].at + 1, events[k].at + Len(events[k].key) + 2)
                   = Quoted(events[k].key)

(***************************************************************************)
(* Termination, propagation of errors, laziness                            *)
(***************************************************************************)
\* C21: termination: every run on a finite input ends, with the exit status
\* of a success or of a failure; every next-item step that returned an item
\* or signalled the end of its sequence has consumed at least one character
\* of the input; the cursor never moves backwards.
C21_Termination ==
    /\ <>(pc = "done")
    /\ [](pc = "done" => status \in {0, 1, 134})
    /\ []((events # <<>> /\ LastEvent.op \in {"next", "end"})
              => LastEvent.from < LastEvent.to)
    /\ [][pos' >= pos]_vars

\* C21 witness: a run has ended after a stream returned items and signalled
\* the end of its sequence
C21_RunEndedAfterItems ==
    /\ pc = "done"
    /\ \E id \in DOMAIN streams :
         /\ streams[id].spent /\ streams[id].count >= 2
         /\ Len(EventsOf({"end"}, id)) = 1

\* C22: after the first error is raised, at any depth of nesting, the run
\* stops: the throw is the last step of parse and serialize and the only
\* throw, and from then on no next-item step runs, the cursor does not move,
\* no stream changes and nothing more is written to standard output; the
\* only step left is the one that ends the process.
C22_ErrorStopsRun ==
    /\ [](exc.exc # NoExc =>
             /\ LastEvent.op = "throw"
             /\ Len(SelectSeq(events, LAMBDA e : e.op = "throw")) = 1
             /\ pc \in {"catch", "terminate", "done"})
    /\ [][exc.exc # NoExc =>
             /\ pos' = pos /\ out' = out /\ events' = events
             /\ streams' = streams /\ stack' = stack /\ cur' = cur
             /\ exc' = exc /\ pc' = "done"]_vars

\* C22 witness: an error was raised by a stream nested in two others, behind
\* an item of it, and the run has ended
C22_NestedErrorEnded ==
    /\ pc = "done" /\ status = 1
    /\ Len(stack) >= 3
    /\ streams[Top(stack)].count >= 1

(***************************************************************************)
(* Integer literals                                                        *)
(***************************************************************************)
\* the first index of the maximal run of digits and '.' that ends at index i
RECURSIVE RunStart(_)
RunStart(i) ==
    IF i >= 1 /\ (IsDigit(input[i]) \/ input[i] = ".") THEN RunStart(i - 1) ELSE i + 1

\* the numeric token whose last character is input[i]
NumberEndingAt(i) ==
    SubSeq(input,
           IF RunStart(i) > 1 /\ input[RunStart(i) - 1] = "-"
           THEN RunStart(i) - 1 ELSE RunStart(i),
           i)

\* the numeric token that starts at input[q + 1], a digit or '-'
NumberStartingAt(q) ==
    SubSeq(input, q + 1, RunEnd(IF input[q + 1] = "-" THEN q + 2 ELSE q + 1))

HasPoint(tok) == \E i \in DOMAIN tok : tok[i] = "."

Magnitude(tok) == Canonical(IF tok[1] = "-" THEN Tail(tok) ELSE tok)

\* tok is an integer literal of the signed 64-bit range: at most 18
\* significant digits, or one of the two limits
IntegerLiteral(tok) ==
    /\ ~HasPoint(tok)
    /\ Digits(IF tok[1] = "-" THEN Tail(tok) ELSE tok)
    /\ \/ Len(Magnitude(tok)) <= 18
       \/ Magnitude(tok) = Int64MaxDigits
       \/ tok[1] = "-" /\ Magnitude(tok) = Int64MinDigits

Negative(tok) == tok[1] = "-" /\ Magnitude(tok) # <<"0">>

\* the Integer variant that holds the value of tok
IntegerOf(tok) == [type |-> "int64_t", neg |-> Negative(tok), mag |-> Magnitude(tok)]

\* the canonical decimal text of the value of tok
CanonicalText(tok) == (IF Negative(tok) THEN <<"-">> ELSE <<>>) \o Magnitude(tok)

\* the step that decoded the value a "scalar" step wrote
DecodedBy(j) == IF events[j - 1].op = "item" THEN events[j - 2] ELSE events[j - 1]

\* C23: a numeric token without '.' whose value lies in the signed 64-bit
\* range is decoded, as the Integer variant that holds exactly that value,
\* and is written as its canonical decimal text, with a leading '-' for a
\* negative value and no other character, for every indent width; a decoded
\* number is an Integer exactly when its token holds no '.'.
C23_IntegerLiterals ==
    /\ pc \in {"parse", "next"} =>
           LET v == ValuePos
           IN  (/\ v # NoPos /\ KindOf(NextChar(v)) = "NUMBER"
                /\ IntegerLiteral(NumberStartingAt(SkipSpace(input, v))))
                   => LET t == NextStep
                      IN  (t.examined <= Len(input) \/ eof) =>
                              /\ t.exc.exc = NoExc
                              /\ t.cur.value = IntegerOf(NumberStartingAt(SkipSpace(input, v)))
    /\ (events # <<>> /\ LastEvent.op \in {"parse", "next"}
           /\ LastEvent.value.type \in {"int64_t", "double"})
           => LET tok == NumberEndingAt(LastEvent.to)
              IN  /\ LastEvent.value.type = "int64_t" <=> ~HasPoint(tok)
                  /\ ~HasPoint(tok) => LastEvent.value = IntegerOf(tok)
    /\ (events # <<>> /\ LastEvent.op = "scalar" /\ LastEvent.value.type = "int64_t")
           => /\ DecodedBy(Len(events)).value = LastEvent.value
              /\ Text(LastEvent) = CanonicalText(NumberEndingAt(DecodedBy(Len(events)).to))

\* C23 witness: a negative integer was written as an element of an array in
\* an indented run
C23_NegativeElementWritten ==
    /\ indent_base > 0
    /\ events # <<>> /\ LastEvent.op = "scalar" /\ LastEvent.stream # 0
    /\ LastEvent.value.type = "int64_t" /\ LastEvent.value.neg
    /\ streams[LastEvent.stream].kind = "array"

(***************************************************************************)
(* A composite child that is not read to its end                           *)
(***************************************************************************)
\* the cursor positions at which stream c was asked for its next item: where
\* a consumer that stops reading c leaves the cursor
StopPositions(c) ==
    {events[k].from : k \in {j \in DOMAIN events :
                                 events[j].stream = c /\ events[j].op \in {"next", "end"}}}

\* what the next-item step of the stream that yielded c returns when it runs
\* with the cursor at q
ParentStepAt(c, q) == next_value(impl, streams[streams[c].parent].kind, input, q, FALSE)

\* C24: no implicit skip: when the stream that yielded a composite child is
\* asked for its next item while the cursor stands inside the child, where
\* the child was about to be asked for an item or for its end, the step reads
\* the child's remaining tokens as its own: it never moves the cursor past
\* the child's closing bracket; the item it returns begins with the ',' that
\* stands there and ends inside the child, and the end of sequence it signals
\* is the child's closing bracket; so neither is content of the parent, which
\* begins behind that bracket.
C24_NoImplicitSkip ==
    pc = "done" =>
        \A c \in DOMAIN streams :
            (streams[c].parent # 0 /\ streams[c].spent) =>
                \A q \in StopPositions(c) :
                    LET P == ParentStepAt(c, q)
                        close == EndOf(c)[1].to
                    IN  (P.ex <= Len(input) \/ eof) =>
                            /\ P.pos <= close
                            /\ P.exc = NoExc =>
                                 /\ q < P.pos
                                 /\ IF P.end
                                    THEN /\ NextChar(q) = CloseBracket(streams[streams[c].parent].kind)
                                         /\ P.pos = close
                                    ELSE /\ NextChar(q) = ","
                                         /\ P.pos < close

\* C24 witness: a run has ended after a child with two items, so that a
\* parent step from behind the child's first item returns the second
C24_ChildWithTwoItemsRead ==
    /\ pc = "done"
    /\ \E c \in DOMAIN streams :
         /\ streams[c].parent # 0 /\ streams[c].spent /\ streams[c].count >= 2
         /\ \E q \in StopPositions(c) :
              ParentStepAt(c, q).exc = NoExc /\ ~ParentStepAt(c, q).end

(***************************************************************************)
(* Laziness and order of the streaming                                     *)
(***************************************************************************)
\* the composites that stream id has yielded
ChildrenOf(id) == {c \in DOMAIN streams : streams[c].parent = id}

\* C25: laziness and streaming order: a step that decodes a composite (parse()
\* at top level, a next-item step below) consumes its opening bracket and
\* looks at nothing behind it; the serializer writes that bracket before any
\* step of the composite's own stream runs; and when a stream decodes its
\* k-th item (or ends, or fails), the values of its items 1..k-1 have been
\* written, every composite among them up to its closing bracket.
C25_LazyStreamingOrder ==
    /\ (pc = "value" /\ IsStream(cur.value)) =>
           /\ DecodedBy(Len(events) + 1).op \in {"parse", "next"}
           /\ DecodedBy(Len(events) + 1).value = cur.value
           /\ cur.value.id = Len(streams)
           /\ input[pos] = OpenBracket(streams[cur.value.id].kind)
           /\ examined = pos
           /\ EventsOf({"next", "end", "throw"}, cur.value.id) = <<>>
           /\ LastEvent.op = "parse" => pos = SkipSpace(input, 0) + 1
    /\ (events # <<>> /\ LastEvent.stream # 0
           /\ LastEvent.op \in {"next", "end", "throw"}) =>
           LET id   == LastEvent.stream
               done == Len(EventsOf({"next"}, id)) - (IF LastEvent.op = "next" THEN 1 ELSE 0)
           IN  /\ \E i \in DOMAIN events :
                      /\ events[i].op = "open" /\ events[i].value.id = id
                      /\ \A j \in DOMAIN events :
                             (events[j].stream = id /\ events[j].op # "open") => i < j
               /\ Len(EventsOf({"item"}, id)) = done
               /\ Len(EventsOf({"scalar", "open"}, id)) = done
               /\ \A c \in ChildrenOf(id) :
                      (LastEvent.op = "next" /\ IsStream(LastEvent.value)
                          /\ c = LastEvent.value.id)
                      \/ (streams[c].spent /\ Len(EventsOf({"close"}, c)) = 1)

\* C25 witness: a stream decoded an item behind a composite item that had
\* been written up to its closing bracket
C25_ItemDecodedBehindWrittenChild ==
    /\ events # <<>> /\ LastEvent.op = "next" /\ LastEvent.stream # 0
    /\ \E c \in ChildrenOf(LastEvent.stream) :
         streams[c].spent /\ Len(EventsOf({"close"}, c)) = 1

\* the streams that have been opened and have not signalled their end
Unspent == {id \in DOMAIN streams : ~streams[id].spent}

\* the innermost of them: nesting follows the order of construction
Innermost == CHOOSE id \in Unspent : \A other \in Unspent : other <= id

\* C26: single active reader: at every moment the streams that have been
\* opened and have not signalled their end of sequence form one chain by
\* nesting (the outermost is the top-level value, every other one was yielded
\* by the one before it), and every step that moves the cursor is parse() at
\* top level, before any stream exists, or a next-item step of the innermost
\* of them; so two unfinished streams never consume tokens in turn.
C26_SingleActiveReader ==
    /\ [](/\ \A id \in Unspent :
                 IF id = 1 THEN streams[id].parent = 0
                 ELSE streams[id].parent \in Unspent /\ streams[id].parent < id
           /\ \A a, b \in Unspent : streams[a].parent = streams[b].parent => a = b)
    /\ [][pos' # pos =>
             \/ pc = "parse" /\ streams = <<>>
             \/ /\ pc = "next" /\ Unspent # {}
                /\ events'[Len(events')].stream = Innermost
                /\ events'[Len(events')].op \in {"next", "end", "throw"}]_vars

\* C26 witness: three nested streams are open and the innermost has decoded
\* an item
C26_InnermostOfThreeReads ==
    /\ Cardinality(Unspent) >= 3
    /\ LastEvent.op = "next" /\ LastEvent.stream = Innermost
    /\ LastEvent.from < LastEvent.to

StepsOf(id) == EventsOf({"next", "end", "throw"}, id)

\* C28: a spent stream is never stepped again: the stream whose next-item
\* step is about to run has not signalled its end; a stream that has
\* signalled it did so once, in its last step, and that step consumed
\* whitespace and one closing bracket of its kind; so one closing bracket is
\* consumed per stream and no token of the parent is read through the child.
C28_SpentStreamNotStepped ==
    /\ pc = "next" => ~streams[Top(stack)].spent
    /\ \A id \in DOMAIN streams :
           LET E == EndOf(id)
               T == StepsOf(id)
           IN  /\ Len(E) = (IF streams[id].spent THEN 1 ELSE 0)
               /\ streams[id].spent =>
                    /\ T[Len(T)] = E[1]
                    /\ E[1].to = SkipSpace(input, E[1].from) + 1
                    /\ input[E[1].to] = CloseBracket(streams[id].kind)

\* C28 witness: a run has succeeded in which a stream and the stream that
\* yielded it have both signalled their end
C28_ChildAndParentSpent ==
    /\ pc = "done" /\ status = 0
    /\ \E c \in DOMAIN streams :
         /\ streams[c].parent # 0
         /\ streams[c].spent /\ streams[streams[c].parent].spent
         /\ streams[streams[c].parent].count >= 2

(***************************************************************************)
(* The lexer's operations, one after the other                             *)
(***************************************************************************)
\* the cursor positions a lexer operation is tried at: where the cursor
\* stands, and every position of the input a run has ended on
LexerPositions == IF pc = "done" THEN 0 .. Len(input) ELSE {pos} \cap (0 .. Len(input))

\* the stream has delivered every character the lexer operation with result
\* r looked at
Known(r) == r.ex <= Len(input) \/ eof

\* the exceptions parse_string and parse_number throw on a token that
\* peek_type has announced
TokenErrors ==
    { [type |-> "STRING", exc |-> ParseError, msg |-> "Unterminated string"],
      [type |-> "NUMBER", exc |-> ParseError, msg |-> MultiplePoints],
      [type |-> "NUMBER", exc |-> "std::invalid_argument", msg |-> "stoll"],
      [type |-> "NUMBER", exc |-> "std::invalid_argument", msg |-> "stod"],
      [type |-> "NUMBER", exc |-> "std::out_of_range", msg |-> "stoll"] }

\* C29 as stated: when peek_type returns kind k without error, a peek_type
\* right after it returns k again and does not move the cursor, and a
\* next_token right after it returns a token of kind k.
C29_PeekThenNextSameKind ==
    \A p \in LexerPositions :
        LET pk == peek_type(input, p)
        IN  (pk.exc = NoExc /\ Known(pk) /\ Known(next_token(input, pk.pos))) =>
                /\ peek_type(input, pk.pos) = pk
                /\ next_token(input, pk.pos).exc = NoExc
                /\ next_token(input, pk.pos).type = pk.type

\* C29 amended: when peek_type returns kind k without error, it has consumed
\* whitespace only, a peek_type right after it returns k again and does not
\* move the cursor, and a next_token right after it either returns a token
\* of kind k, consuming it (nothing for END_OF_INPUT), or, for a string or a
\* number, throws the error of that token: "Unterminated string", "Multiple
\* decimal points in number" or the exception of std::stoll / std::stod.
C29_PeekDoesNotConsume ==
    \A p \in LexerPositions :
        LET pk == peek_type(input, p)
            nt == next_token(input, pk.pos)
        IN  (pk.exc = NoExc /\ Known(pk) /\ Known(nt)) =>
                /\ pk.pos = SkipSpace(input, p)
                /\ peek_type(input, pk.pos) = pk
                /\ pk.type = KindOf(NextChar(p))
                /\ IF nt.exc = NoExc
                   THEN /\ nt.type = pk.type
                        /\ IF pk.type = "END_OF_INPUT" THEN nt.pos = pk.pos
                           ELSE nt.pos > pk.pos
                   ELSE [type |-> pk.type, exc |-> nt.exc, msg |-> nt.msg] \in TokenErrors

\* C29 witness: the cursor stands before a string that peek_type announces
\* and next_token cannot read
C29_PeekedStringUnreadable ==
    /\ pc \in {"parse", "next"}
    /\ peek_type(input, pos).exc = NoExc
    /\ peek_type(input, pos).type = "STRING"
    /\ next_token(input, pos).exc = ParseError
    /\ eof

\* the token types a caller can expect: NOOP is a token_type of json.cpp only
ExpectedKinds ==
    {"OBJECT_BEGIN", "OBJECT_END", "ARRAY_BEGIN", "ARRAY_END", "COMMA", "COLON",
     "STRING", "NUMBER", "END_OF_INPUT"}
    \cup (IF impl = "cpp23" THEN {"NOOP"} ELSE {})

\* C30 as stated: try_consume_token(expected) with an expected kind other
\* than the kind of the next token leaves the cursor where it was, reports
\* "no match" and no error, and the next token is still there for the
\* operation that follows.
C30_MismatchLeavesCursor ==
    \A p \in LexerPositions : \A expected \in ExpectedKinds :
        LET pk == peek_type(input, p)
            r  == try_consume_token(input, p, expected)
        IN  (pk.exc = NoExc /\ Known(pk) /\ pk.type # expected) =>
                /\ r.pos = p
                /\ ~r.some /\ r.exc = NoExc
                /\ peek_type(input, r.pos).type = pk.type

\* C30 amended: try_consume_token(expected) with an expected kind other than
\* the kind of the next token consumes no token: it consumes the whitespace
\* before the next token and nothing else, reports "no match" and no error,
\* and the next token is still there: the operation that follows finds what
\* it would have found before the call.  Expecting NOOP (json.cpp) is
\* different: the call touches nothing and reports a match, a NOOP token.
C30_MismatchConsumesNoToken ==
    \A p \in LexerPositions :
        LET pk == peek_type(input, p)
            sp == SkipSpace(input, p)
        IN  (pk.exc = NoExc /\ Known(pk)) =>
                /\ \A i \in (p + 1) .. sp : IsSpace(input[i])
                /\ peek_type(input, sp) = pk
                /\ next_token(input, sp) = next_token(input, p)
                /\ \A expected \in ExpectedKinds \ {pk.type} :
                       LET r == try_consume_token(input, p, expected)
                       IN  IF expected = "NOOP"
                           THEN r.some /\ r.exc = NoExc /\ r.type = "NOOP" /\ r.pos = p
                           ELSE ~r.some /\ r.exc = NoExc /\ r.pos = sp

\* C30 witness: a stream is asked for its next item with whitespace before a
\* token that is not its closing bracket
C30_WhitespaceBeforeMismatch ==
    /\ pc = "next"
    /\ pos < Len(input) /\ IsSpace(input[pos + 1])
    /\ peek_type(input, pos).exc = NoExc
    /\ peek_type(input, pos).type = "COMMA"
    /\ ~try_consume_token(input, pos, "ARRAY_END").some

(***************************************************************************)
(* Empty composites                                                        *)
(***************************************************************************)
\* the closing bracket of the running stream follows its opening bracket,
\* whitespace aside
AtEmptyComposite ==
    /\ pc = "next"
    /\ streams[Top(stack)].first
    /\ NextChar(pos) = CloseBracket(streams[Top(stack)].kind)

\* what serialize writes for a composite without items
EmptyText(id) ==
    <<OpenBracket(streams[id].kind)>>
    \o (IF indent_base = 0 THEN <<>> ELSE <<"\n">> \o Spaces(indent_base * Depth(id)))
    \o <<CloseBracket(streams[id].kind)>>

\* C31: empty composites: a composite whose closing bracket follows its
\* opening bracket (whitespace aside) ends its sequence at the first step,
\* with zero items; what is written for it is "{}" or "[]" at indent width
\* 0 and, at indent width N > 0 and nesting level L, the opening bracket, a
\* newline, N * L spaces and the closing bracket.
C31_EmptyComposites ==
    /\ (AtEmptyComposite /\ StepEnabled) =>
          LET t == NextStep
          IN  /\ t.pc = "close"
              /\ t.streams[Top(stack)].spent
              /\ t.streams[Top(stack)].count = 0
              /\ t.pos = SkipSpace(input, pos) + 1
    /\ (/\ events # <<>>
        /\ LastEvent.op = "close"
        /\ streams[LastEvent.stream].count = 0) =>
          LET n == Len(events)
          IN  /\ events[n - 1].op = "end" /\ events[n - 1].stream = LastEvent.stream
              /\ events[n - 2].op = "open" /\ events[n - 2].value.id = LastEvent.stream
              /\ SubSeq(out, events[n - 2].at + 1, LastEvent.len)
                     = EmptyText(LastEvent.stream)
              /\ streams[LastEvent.stream].level = Depth(LastEvent.stream)

\* C31 witness: an indented run wrote a nested composite without items whose
\* brackets stand apart in the input
C31_NestedEmptyIndented ==
    /\ indent_base > 0
    /\ events # <<>>
    /\ LastEvent.op = "close"
    /\ streams[LastEvent.stream].count = 0
    /\ Depth(LastEvent.stream) >= 1
    /\ IsSpace(input[LastEvent.to - 1])

(***************************************************************************)
(* The two programs side by side                                           *)
(***************************************************************************)
\* the program built from the other source file
OtherImpl == IF impl = "cpp23" THEN "cpp17" ELSE "cpp23"

\* the run of the other program on the same input and indent width
OtherRun == Run(input, OtherImpl, indent_base)

\* C32: the two programs fail alike: on the input of a finished run the
\* program built from the other source succeeds exactly when this one did,
\* and when both fail they write the same line to standard error.
C32_SameFailureBehaviour ==
    pc = "done" =>
        LET r == OtherRun
        IN  (r.examined <= Len(input) \/ eof) =>
                /\ status = 0 <=> r.status = 0
                /\ status # 0 => r.err = err

(***************************************************************************)
(* The grammar of the accepted documents                                   *)
(*   V ::= string | number | '{' [ string ':' V ( ',' string ':' V )* ] '}' *)
(*       | '[' [ V ( ',' V )* ] ']'                                        *)
(* A recogniser for it on the input, independent of the parser: each       *)
(* operator returns the number of characters up to the end of what it      *)
(* recognised, NoPos when the input does not hold it.                      *)
(***************************************************************************)
\* tok is a number: an optional '-', then digits and at most one '.', with
\* at least one digit
NumberShape(tok) ==
    LET body == IF tok # <<>> /\ tok[1] = "-" THEN Tail(tok) ELSE tok
    IN  /\ \A i \in DOMAIN body : IsDigit(body[i]) \/ body[i] = "."
        /\ \E i \in DOMAIN body : IsDigit(body[i])
        /\ Cardinality({i \in DOMAIN body : body[i] = "."}) <= 1

\* the string that starts with the quote input[q + 1] ends with the next quote
StringEnd(q) ==
    IF FindQuote(input, q + 2) <= Len(input) THEN FindQuote(input, q + 2) ELSE NoPos

\* the number that starts at input[q + 1] and is followed by no digit or '.'
NumberEnd(q) ==
    IF NumberShape(NumberStartingAt(q)) THEN q + Len(NumberStartingAt(q)) ELSE NoPos

RECURSIVE ValueEnd(_), MemberEnd(_, _), AfterItem(_, _)
\* a value after the whitespace that follows position p
ValueEnd(p) ==
    LET q == SkipSpace(input, p)
        c == NextChar(p)
    IN  CASE c = "\"" -> StringEnd(q)
          [] c = "{" -> IF NextChar(q + 1) = "}" THEN SkipSpace(input, q + 1) + 1
                        ELSE MemberEnd(q + 1, "object")
          [] c = "[" -> IF NextChar(q + 1) = "]" THEN SkipSpace(input, q + 1) + 1
                        ELSE MemberEnd(q + 1, "array")
          [] OTHER -> IF c # EOF /\ (IsDigit(c) \/ c = "-") THEN NumberEnd(q) ELSE NoPos

\* string ':' V of an object, V of an array, and what follows it
MemberEnd(p, kind) ==
    LET k == IF kind = "array" THEN p
             ELSE IF NextChar(p) = "\"" THEN StringEnd(SkipSpace(input, p)) ELSE NoPos
        v == IF kind = "array" THEN ValueEnd(p)
             ELSE IF k = NoPos \/ NextChar(k) # ":" THEN NoPos
             ELSE ValueEnd(SkipSpace(input, k) + 1)
    IN  IF v = NoPos THEN NoPos ELSE AfterItem(v, kind)

\* behind an item: the closing bracket, or ',' and another item
AfterItem(p, kind) ==
    LET c == NextChar(p)
    IN  IF c = CloseBracket(kind) THEN SkipSpace(input, p) + 1
        ELSE IF c = "," THEN MemberEnd(SkipSpace(input, p) + 1, kind)
        ELSE NoPos

\* the input, after leading whitespace, begins with a value of the grammar
\* (a number token extends over every digit and '.' that follows it)
BeginsWithValue == ValueEnd(0) # NoPos

\* C33: accepted language: a run ends in success exactly when the input,
\* after leading whitespace, begins with a value of the grammar.
C33_AcceptedLanguage ==
    pc = "done" => (status = 0 <=> BeginsWithValue)

(***************************************************************************)
(* The brackets of the output                                              *)
(***************************************************************************)
Mismatch == <<"mismatch">>

\* the opening brackets of out[i .. Len(out)] that are left unclosed, after
\* those of stk, outermost first; the characters between two '"' belong to a
\* string; Mismatch if a closing bracket does not close the innermost one
RECURSIVE Nesting(_, _, _)
Nesting(i, stk, in_string) ==
    IF i > Len(out) THEN stk
    ELSE IF in_string THEN Nesting(i + 1, stk, out[i] # "\"")
    ELSE IF out[i] = "\"" THEN Nesting(i + 1, stk, TRUE)
    ELSE IF out[i] \in {"{", "["} THEN Nesting(i + 1, Append(stk, out[i]), FALSE)
    ELSE IF out[i] \in {"}", "]"}
    THEN IF stk # <<>> /\ stk[Len(stk)] = (IF out[i] = "}" THEN "{" ELSE "[")
         THEN Nesting(i + 1, SubSeq(stk, 1, Len(stk) - 1), FALSE)
         ELSE Mismatch
    ELSE Nesting(i + 1, stk, FALSE)

\* the unclosed opening brackets of the output so far
Unclosed == Nesting(1, <<>>, FALSE)

\* C34: bracket discipline of the output: at every point of every run the
\* brackets written so far are properly nested, the unclosed ones are, in
\* order, the opening brackets of the streams whose loop is running (as many
\* as there are such streams), and on success none is left unclosed.
C34_BracketDiscipline ==
    /\ Unclosed # Mismatch
    /\ Len(Unclosed) = Len(stack)
    /\ \A i \in DOMAIN stack : Unclosed[i] = OpenBracket(streams[stack[i]].kind)
    /\ status = 0 => Unclosed = <<>> /\ stack = <<>>

\* C34 witness: an array is open inside an object (or the other way round)
\* behind a composite that has been closed
C34_MixedNestingBehindClosed ==
    /\ Len(stack) = 2
    /\ streams[stack[1]].kind # streams[stack[2]].kind
    /\ \E k \in DOMAIN events : events[k].op = "close"
    /\ LastEvent.op = "open"

(***************************************************************************)
(* Whitespace between tokens                                               *)
(***************************************************************************)
\* the index of the last character of the token that starts with input[i]:
\* a string reaches to its closing quote (to the end of the input if it has
\* none), a number over every digit and '.' behind its first character, any
\* other token is one character
TokenEnd(i) ==
    IF input[i] = "\""
    THEN IF FindQuote(input, i + 1) <= Len(input) THEN FindQuote(input, i + 1)
         ELSE Len(input)
    ELSE IF IsDigit(input[i]) \/ input[i] = "-" THEN RunEnd(i + 1)
    ELSE i

\* the whitespace put between tokens
Gap == <<" ", "\n">>

\* input[i .. Len(input)] with whitespace put before every token and at the
\* end
RECURSIVE Spread(_)
Spread(i) ==
    IF i > Len(input) THEN Gap
    ELSE IF IsSpace(input[i]) THEN <<input[i]>> \o Spread(i + 1)
    ELSE Gap \o SubSeq(input, i, TokenEnd(i)) \o Spread(TokenEnd(i) + 1)

\* input[i .. Len(input)] without the whitespace between tokens; prev is the
\* last character of the token before.  Whitespace that keeps a digit or '.'
\* from a number before it is no whitespace between tokens: without it the
\* two would be one token.
RECURSIVE Strip(_, _)
Strip(i, prev) ==
    IF i > Len(input) THEN <<>>
    ELSE IF IsSpace(input[i])
    THEN LET j == SkipSpace(input, i)
         IN  IF /\ j < Len(input)
                /\ IsDigit(prev) \/ prev \in {".", "-"}
                /\ IsDigit(input[j + 1]) \/ input[j + 1] = "."
             THEN SubSeq(input, i, j) \o Strip(j + 1, prev)
             ELSE Strip(j + 1, prev)
    ELSE SubSeq(input, i, TokenEnd(i)) \o Strip(TokenEnd(i) + 1, input[TokenEnd(i)])

\* C35: whitespace between tokens is insignificant: the run on the input
\* with whitespace put before every token and at the end, and the run on the
\* input without its whitespace between tokens, end as the run on the input
\* itself does: same exit status, same standard output, same error line.
C35_WhitespaceInsignificant ==
    pc = "done" =>
        \A w \in {Spread(1), Strip(1, "")} :
            LET r == Run(w, impl, indent_base)
            IN  r.status = status /\ r.out = out /\ r.err = err

\* C35 witness: a run wrote an item of a composite whose input holds
\* whitespace between two tokens
C35_WhitespaceBetweenItems ==
    /\ pc = "done"
    /\ \E k \in DOMAIN events : events[k].op = "item"
    /\ Len(Strip(1, "")) < Len(input)
    /\ ~IsSpace(input[Len(input)])

(***************************************************************************)
(* The indent width                                                        *)
(***************************************************************************)
\* out[i .. Len(out)] without the newlines and spaces serialize put before
\* items and closing brackets
RECURSIVE Unlay(_)
Unlay(i) ==
    IF i > Len(out) THEN <<>>
    ELSE (IF InLayout(i) THEN <<>> ELSE <<out[i]>>) \o Unlay(i + 1)

\* the run of the same program on the same input with indent width 0
CompactRun == Run(input, impl, 0)

\* C36: the indent width changes only inserted layout: a run with indent
\* width N > 0 ends with the exit status and the error line of the run on the
\* same input with indent width 0, and its output without the newlines and
\* spaces serialize inserted is the output of that run.
C36_IndentOnlyLayout ==
    (pc = "done" /\ indent_base > 0) =>
        LET r == CompactRun
        IN  /\ r.status = status
            /\ r.err = err
            /\ r.out = Unlay(1)

\* C36 witness: an indented run succeeded on a composite inside a composite
\* that holds an item
C36_IndentedNestedRun ==
    /\ pc = "done" /\ status = 0 /\ indent_base > 0
    /\ \E id \in DOMAIN streams : streams[id].parent # 0
    /\ \E id \in DOMAIN streams : streams[id].count >= 1
    /\ Len(Unlay(1)) < Len(out)

(***************************************************************************)
(* What the output depends on                                              *)
(***************************************************************************)
IsPrefix(a, b) == Len(a) <= Len(b) /\ SubSeq(b, 1, Len(a)) = a

\* the run on the input in from state s, up to the step that would move the
\* cursor (by = "consumed") or the lexer's look (by = "examined") beyond the
\* first n characters
RECURSIVE RunWithin(_, _, _, _)
RunWithin(in, s, n, by) ==
    IF s.pc = "done" THEN s
    ELSE With(Step(in, impl, indent_base, s), LAMBDA t :
           IF (IF by = "consumed" THEN t.pos ELSE t.examined) > n THEN s
           ELSE RunWithin(in, t, n, by))

\* a step has just written to standard output
JustWritten == events # <<>> /\ LastEvent.op \in {"item", "scalar", "open", "close"}

\* C37 as stated: what has been written with the cursor behind the prefix p
\* of the input is written by the run on any input p t before its cursor
\* moves beyond p.
C37_PrefixDeterminism ==
    JustWritten =>
        \A t \in Trailers :
            IsPrefix(out, RunWithin(SubSeq(input, 1, pos) \o t, InitState, pos,
                                    "consumed").out)

\* C37 amended: what has been written when the lexer has looked at no
\* character beyond the prefix p of the input (the character behind a number,
\* at which the lexer looks without consuming it, belongs to p) is written by
\* the run on any input p t before it looks beyond p.
C37_OutputDependsOnExaminedPrefix ==
    (JustWritten /\ examined <= Len(input)) =>
        \A t \in Trailers :
            IsPrefix(out, RunWithin(SubSeq(input, 1, examined) \o t, InitState,
                                    examined, "examined").out)

\* C37 witness: a number was written inside a composite; the character behind
\* it has been looked at and not consumed
C37_NumberWrittenBeforeSeparator ==
    /\ JustWritten
    /\ LastEvent.op = "scalar"
    /\ LastEvent.value.type = "int64_t"
    /\ stack # <<>>
    /\ examined = pos + 1
    /\ examined <= Len(input)

(***************************************************************************)
(* Integer or Float                                                        *)
(***************************************************************************)
\* the number of '.' in tok
Points(tok) == Cardinality({i \in DOMAIN tok : tok[i] = "."})

\* the variant the dot selects
VariantOf(tok) == IF Points(tok) = 0 THEN "int64_t" ELSE "double"

\* C38: number representation is chosen by the dot alone: a numeric token
\* that is lexed without error yields the Float variant exactly when its
\* text holds one '.', and the Integer variant exactly when it holds none,
\* whatever its digits are; so does every number a step has decoded.
C38_RepresentationByDot ==
    /\ \A p \in LexerPositions :
         (p < Len(input) /\ (IsDigit(input[p + 1]) \/ input[p + 1] = "-")) =>
             LET r == parse_number(input, p)
             IN  (Known(r) /\ r.exc = NoExc) =>
                     /\ Points(NumberStartingAt(p)) <= 1
                     /\ r.value.type = VariantOf(NumberStartingAt(p))
    /\ (/\ events # <<>>
        /\ LastEvent.op \in {"parse", "next"}
        /\ LastEvent.value.type \in {"int64_t", "double"}) =>
           LET tok == NumberEndingAt(LastEvent.to)
           IN  /\ LastEvent.value.type = "double" <=> Points(tok) = 1
               /\ LastEvent.value.type = "int64_t" <=> Points(tok) = 0

\* C38 witness: a stream has decoded a Float whose value is zero, from a
\* token with a '.' and no digit other than 0
C38_ZeroFloatDecoded ==
    /\ events # <<>>
    /\ LastEvent.op = "next"
    /\ LastEvent.value.type = "double"
    /\ LastEvent.value.sig = <<>>

(***************************************************************************)
(* The errors of construction and of internal consistency                  *)
(***************************************************************************)
\* the messages of the throws in the stream constructors, in parse_value
\* behind next_token and behind the switch of next_token
InternalErrors ==
    {"Expected '{'", "Expected '['", "Expected value token to have a value",
     "Unexpected token type"}

\* C39: the construction-time and internal-consistency errors are
\* unreachable through parse(): no run raises one of them, and at no
\* position of the input does parse_value or next_token raise one; a stream
\* is constructed by the step that peeked its opening bracket, at the
\* position where the bracket stands, and consumes exactly that bracket.
C39_InternalErrorsUnreachable ==
    /\ exc.msg \notin InternalErrors
    /\ \A p \in LexerPositions :
         LET v == parse_value(input, p)
             t == next_token(input, p)
         IN  /\ Known(v) => v.msg \notin InternalErrors
             /\ Known(t) => t.msg \notin InternalErrors
             /\ (Known(v) /\ v.exc = NoExc /\ IsStream(v.value)) =>
                    /\ v.pos = SkipSpace(input, p) + 1
                    /\ input[v.pos] = (IF v.value.type = "object_stream" THEN "{" ELSE "[")

\* C39 witness: a run that constructed an object stream and an array stream
\* through parse() has failed
C39_FailedBehindBothStreams ==
    /\ pc = "done" /\ status = 1
    /\ \E a, b \in DOMAIN streams : streams[a].kind = "object" /\ streams[b].kind = "array"

====
